------------------------------- MODULE TextSearch ------------------------------
(***************************************************************************)
(* How names and messages are looked for: by LIKE in the tables of the     *)
(* server, where % _ and \ of what was typed are escaped, and by           *)
(* strncasecmp in the lists of the client.  A text is a sequence of        *)
(* symbols.                                                                *)
(***************************************************************************)
EXTENDS Naturals, Sequences, SequencesExt

Wild == {"%", "_", "\\"}

\* Letters have two cases; other symbols are their own.
Lower(c) == CASE c = "A" -> "a" [] c = "B" -> "b" [] OTHER -> c

Same(c, d) == Lower(c) = Lower(d)

\* (Slip: the symbols are taken as they are.)
ParseNothing(text) == text

Escaped(c) == IF c \in Wild THEN <<"\\", c>> ELSE <<c>>

\* parse_str_search: a backslash before each symbol that means something to LIKE.
ParseStrSearch(text) ==
  LET done[n \in 0 .. Len(text)] == IF n = 0 THEN <<>> ELSE done[n - 1] \o Escaped(text[n])
  IN done[Len(text)]

\* pattern LIKE text ESCAPE '\': where in the text the pattern, from its n-th symbol on,
\* finds all that is left.  % is any run of symbols and _ any one, and what follows the
\* escape is itself.
Like(pattern, text) ==
  LET P == Len(pattern)
      T == Len(text)
      from[n \in 1 .. P + 2] ==
        IF n > P THEN {T + 1}
        ELSE LET c == pattern[n] IN
             CASE c = "%" -> {k \in 1 .. T + 1 : \E j \in k .. T + 1 : j \in from[n + 1]}
               [] c = "_" -> {k \in 1 .. T : k + 1 \in from[n + 1]}
               [] c = "\\" -> {k \in 1 .. T : /\ n < P /\ Same(pattern[n + 1], text[k])
                                              /\ k + 1 \in from[n + 2]}
               [] OTHER -> {k \in 1 .. T : Same(c, text[k]) /\ k + 1 \in from[n + 1]}
  IN 1 \in from[1]

AnyRun == <<"%", "%">>

\* WHERE NAME LIKE of search_rooms_in_db.
RoomMatches(typed, name) == Like(ParseStrSearch(typed) \o AnyRun, name)

\* MESSAGE LIKE of search_msgs_in_db.
MsgMatches(typed, msg) == Like(AnyRun \o ParseStrSearch(typed) \o AnyRun, msg)

SameTexts(s, t) == Len(s) = Len(t) /\ \A n \in DOMAIN s : Same(s[n], t[n])

\* filter_room_name, filter_member_login: strncasecmp over the length of the search.
FilterName(typed, name) ==
  Len(typed) <= Len(name) /\ SameTexts(typed, SubSeq(name, 1, Len(typed)))
===============================================================================
