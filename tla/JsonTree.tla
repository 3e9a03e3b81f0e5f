------------------------------- MODULE JsonTree -------------------------------
(***************************************************************************)
(* The trees of libraries/cjson/cJSON.c, in which the program keeps every  *)
(* request and answer: cells that next, prev and child link into lists,    *)
(* with the prev of a list's first item leading to its last one, or to     *)
(* nothing where the list was not built item by item.                      *)
(*                                                                         *)
(* The caller keeps the contract that the program keeps: it adds only what *)
(* it holds by itself, into nothing below it; it puts items into objects   *)
(* under a key and into arrays without one; and while a reference to a     *)
(* container is there, it leaves that container as it is.  Strings are     *)
(* left out, but for the keys; a leaf is its type with its value.          *)
(***************************************************************************)
EXTENDS Naturals, Sequences, FiniteSets, FiniteSetsExt, Functions, SequencesExt

CONSTANTS
    Item,       \* cells of memory; an allocation fails when none is free
    Leaf,       \* a number, a string, true ... with its value
    Key,        \* the keys of objects
    Lower,      \* Lower[k] is k as case_insensitive_strcmp sees it
    MaxIndex,   \* bound: the largest index a caller passes
    MaxList,    \* bound: the items of a container that is made with its items
    NULL

ASSUME ItemsAreFinite == IsFiniteSet(Item) /\ NULL \notin Item \cup Key
ASSUME LowerFolds == Lower \in [Key -> Key]
ASSUME BoundsAreNumbers == MaxIndex \in Nat /\ MaxList \in Nat

Container == {"array", "object"}

ASSUME LeavesAreTyped == Leaf \cap ({"free"} \cup Container) = {}

Type == {"free"} \cup Leaf \cup Container

Pointer == Item \cup {NULL}

Cell == [type : Type, ref : BOOLEAN, next : Pointer, prev : Pointer,
         child : Pointer, string : Key \cup {NULL}]

VARIABLES
    cell,       \* the memory
    holder      \* holder[i]: the container the caller knows i to be in

vars == <<cell, holder>>

Blank == [type |-> "free", ref |-> FALSE, next |-> NULL, prev |-> NULL,
          child |-> NULL, string |-> NULL]

Init ==
    /\ cell = [i \in Item |-> Blank]
    /\ holder = [i \in Item |-> NULL]

Free == {i \in Item : cell[i].type = "free"}

\* Memory for the things of S: free cells are alike, so it does not matter which.
CanAllocate(S) == Cardinality(S) <= Cardinality(Free)

Allocated(S) == CHOOSE new \in Injection(S, Free) : TRUE

New == CHOOSE i \in Free : TRUE

-------------------------------------------------------------------------------
(* Reading: the functions that walk the lists of a memory h.               *)

IsA(h, i, type) == i # NULL /\ h[i].type = type

\* What pointers lead to from the items of S; step[i] is where i leads.
Reached(S, step) ==
    LET grow[n \in 0..Cardinality(Item)] ==
            [T \in SUBSET Item |->
               LET more == T \cup UNION {step[j] : j \in T} IN
               IF n = 0 \/ more = T THEN T ELSE grow[n - 1][more]]
    IN  grow[Cardinality(Item)][S]

Chain(h, first) == Reached({first}, [i \in Item |-> {h[i].next} \ {NULL}])

\* The walk to the last item, where the first one does not know it.
LastOf(h, first) == CHOOSE i \in Chain(h, first) : h[i].next = NULL

\* The list of a container, as a walk along next visits it.
Elements(h, a) ==
    LET walk[n \in 0..Cardinality(Item)] ==
            [i \in Pointer |->
               IF n = 0 \/ i = NULL THEN <<>> ELSE <<i>> \o walk[n - 1][h[i].next]]
    IN  walk[Cardinality(Item)][h[a].child]

GetArraySize(h, a) == Len(Elements(h, a))

\* Slip: one step more along next.
GetItemAfter(h, a, index) ==
    IF index + 1 < GetArraySize(h, a) THEN Elements(h, a)[index + 2] ELSE NULL

GetArrayItem(h, a, index) ==
    IF index < GetArraySize(h, a) THEN Elements(h, a)[index + 1] ELSE NULL

\* A search for the exact key ends at an item without one.
GetObjectItem(h, o, key, case_sensitive) ==
    LET items == Elements(h, o)
        string(n) == h[items[n]].string
        ends == {n \in DOMAIN items :
                    IF case_sensitive THEN string(n) \in {NULL, key}
                    ELSE NULL \notin {string(n), key} /\ Lower[string(n)] = Lower[key]}
    IN  IF key = NULL \/ ends = {} \/ string(Min(ends)) = NULL THEN NULL
        ELSE items[Min(ends)]

\* equal[n][x][y]: no difference is seen down to n levels below x and y.
Compare(h, a, b, case_sensitive) ==
    LET find(x, y) == GetObjectItem(h, y, h[x].string, case_sensitive)
        equal[n \in 0..Cardinality(Item)] ==
          [x \in Item |-> [y \in Item |->
            /\ h[x].type = h[y].type
            /\ \/ x = y
               \/ h[x].type \in Leaf
               \/ /\ n > 0 /\ h[x].type = "array"
                  /\ GetArraySize(h, x) = GetArraySize(h, y)
                  /\ \A m \in 1..GetArraySize(h, x) :
                        equal[n - 1][Elements(h, x)[m]][Elements(h, y)[m]]
               \/ /\ n > 0 /\ h[x].type = "object"
                  /\ \A e \in Range(Elements(h, x)) :
                        find(e, y) # NULL /\ equal[n - 1][e][find(e, y)]
                  /\ \A e \in Range(Elements(h, y)) :
                        find(e, x) # NULL /\ equal[n - 1][e][find(e, x)]]]
    IN  equal[Cardinality(Item)][a][b]

\* What cJSON_Delete visits: the items after i, too, and not what a reference shows.
Deleted(h, i) ==
    Reached({i}, [j \in Item |->
        ({h[j].next} \cup IF h[j].ref THEN {} ELSE {h[j].child}) \ {NULL}])

-------------------------------------------------------------------------------
(* Writing: each operator is the memory after a function of cJSON.c.       *)

NewItem(h, i, type) == [h EXCEPT ![i] = [Blank EXCEPT !.type = type]]

Delete(h, i) ==
    LET gone == Deleted(h, i) IN [j \in Item |-> IF j \in gone THEN Blank ELSE h[j]]

SuffixObject(h, prev, item) == [h EXCEPT ![prev].next = item, ![item].prev = prev]

AddItemToArray(h, array, item) ==
    LET child == h[array].child
        last == IF h[child].prev # NULL THEN h[child].prev ELSE LastOf(h, child)
    IN  IF child = NULL
        THEN [h EXCEPT ![array].child = item,
                       ![item].prev = item, ![item].next = NULL]
        ELSE [SuffixObject(h, last, item) EXCEPT ![child].prev = item]

AddItemToObject(h, object, string, item) ==
    AddItemToArray([h EXCEPT ![item].string = string], object, item)

CreateReference(h, item, reference) ==
    [h EXCEPT ![reference] = [h[item] EXCEPT !.string = NULL, !.ref = TRUE,
                                             !.next = NULL, !.prev = NULL]]

\* Slips (the ones of this module change one line of the function after them): the
\* item after the one that goes still leads back to it.
DetachHalf(h, parent, item) ==
    LET linked == IF item = h[parent].child
                  THEN [h EXCEPT ![parent].child = h[item].next]
                  ELSE [h EXCEPT ![h[item].prev].next = h[item].next]
    IN  [linked EXCEPT ![item].prev = NULL, ![item].next = NULL]

DetachItemViaPointer(h, parent, item) ==
    LET next == h[item].next
        prev == h[item].prev
        first == h[parent].child
        before == IF item # first THEN [h EXCEPT ![prev].next = next] ELSE h
        after == IF next # NULL THEN [before EXCEPT ![next].prev = prev] ELSE before
        out == IF item = first THEN [after EXCEPT ![parent].child = next]
               ELSE IF next = NULL THEN [after EXCEPT ![first].prev = prev]
               ELSE after
    IN  [out EXCEPT ![item].prev = NULL, ![item].next = NULL]

\* Slip: the first place is not told from the others.
InsertLoop(h, array, which, newitem) ==
    LET after_inserted == GetArrayItem(h, array, which)
        prev == h[after_inserted].prev
    IN  IF after_inserted = NULL THEN AddItemToArray(h, array, newitem)
        ELSE [h EXCEPT ![newitem].next = after_inserted, ![newitem].prev = prev,
                       ![after_inserted].prev = newitem, ![prev].next = newitem]

InsertItemInArray(h, array, which, newitem) ==
    LET after_inserted == GetArrayItem(h, array, which)
        prev == h[after_inserted].prev
        placed == [h EXCEPT ![newitem].next = after_inserted,
                            ![newitem].prev = prev,
                            ![after_inserted].prev = newitem]
    IN  IF after_inserted = NULL THEN AddItemToArray(h, array, newitem)
        ELSE IF after_inserted = h[array].child
             THEN [placed EXCEPT ![array].child = newitem]
             ELSE [placed EXCEPT ![prev].next = newitem]

Replaced(h, parent, item, replacement) ==
    LET next == h[item].next
        prev == IF h[parent].child = item /\ h[item].prev = item
                THEN replacement ELSE h[item].prev
        taken == [h EXCEPT ![replacement].next = next, ![replacement].prev = prev]
        after == IF next # NULL
                 THEN [taken EXCEPT ![next].prev = replacement] ELSE taken
        before == IF prev # NULL
                  THEN [after EXCEPT ![prev].next = replacement] ELSE after
        last == IF next = NULL
                THEN [before EXCEPT ![h[parent].child].prev = replacement] ELSE before
    IN  IF h[parent].child = item
        THEN [after EXCEPT ![parent].child = replacement] ELSE last

Unlinked(h, item) == [h EXCEPT ![item].next = NULL, ![item].prev = NULL]

\* Without the deletion of the replaced item, which its callers add.
ReplaceItemViaPointer(h, parent, item, replacement) ==
    Unlinked(Replaced(h, parent, item, replacement), item)

\* A list as the parser builds it: the first item leads to the last one.
ParsedList(h, item, items) ==
    [j \in Item |->
       IF j = item THEN [h[j] EXCEPT !.child = items[1]]
       ELSE IF j \notin Range(items) THEN h[j]
       ELSE LET n == CHOOSE m \in DOMAIN items : items[m] = j IN
            [h[j] EXCEPT !.next = IF n = Len(items) THEN NULL ELSE items[n + 1],
                         !.prev = IF n = 1 THEN items[Len(items)] ELSE items[n - 1]]]

\* A list as cJSON_CreateIntArray builds it: the first item leads nowhere back.
FilledList(h, a, items) ==
    [ParsedList(h, a, items) EXCEPT ![items[1]].prev = NULL]

\* The cells that copy maps to become the tree below item, lists like FilledList's.
Duplicate(h, item, copy) ==
    LET to(j) == IF j \in DOMAIN copy THEN copy[j] ELSE NULL
        first(j) == \E p \in DOMAIN copy : h[p].child = j
        old(j) == CHOOSE x \in DOMAIN copy : copy[x] = j
        new(x) == [h[x] EXCEPT !.ref = FALSE,
                               !.child = to(h[x].child),
                               !.next = IF x = item THEN NULL ELSE to(h[x].next),
                               !.prev = IF x = item \/ first(x) THEN NULL
                                        ELSE to(h[x].prev)]
    IN  [j \in Item |-> IF j \in Range(copy) THEN new(old(j)) ELSE h[j]]
-------------------------------------------------------------------------------
(* The calls a caller makes, each within its contract.                     *)

Root(i) == cell[i].type # "free" /\ holder[i] = NULL

Owner(a, type) == IsA(cell, a, type) /\ ~cell[a].ref

Whole(i) ==
    {i} \cup IF cell[i].ref \/ cell[i].child = NULL THEN {}
             ELSE Deleted(cell, cell[i].child)

References == {i \in Item : cell[i].ref}

\* No reference shows a, or what a is in.
Unshared(a) ==
    \A r \in References :
        cell[r].child # NULL => a \notin Whole(holder[cell[r].child])

\* What is given back is shown by no reference that stays.
Unseen(gone) == \A r \in References \ gone : cell[r].child \notin gone

MayTake(a, type, i) == Owner(a, type) /\ Root(i) /\ Unshared(a) /\ a \notin Whole(i)

Forget(gone) ==
    [j \in Item |-> IF j \in gone THEN NULL ELSE holder[j]]

Create(t) ==
    /\ Free # {}
    /\ cell' = NewItem(cell, New, t)
    /\ UNCHANGED holder

\* A container with leaves in it, from the parser or from cJSON_CreateIntArray.
CreateWithItems ==
    \E n \in 1..MaxList, type \in Container, filled \in BOOLEAN :
    \E leaf \in [1..n -> Leaf],
       string \in [1..n -> IF type = "object" THEN Key ELSE {NULL}] :
        LET new == Allocated(0..n)
            a == new[0]
            items == [m \in 1..n |-> new[m]]
            made == [j \in Item |->
                       IF j = a THEN [Blank EXCEPT !.type = type]
                       ELSE IF j \notin Range(items) THEN cell[j]
                       ELSE LET m == CHOOSE x \in 1..n : items[x] = j IN
                            [Blank EXCEPT !.type = leaf[m], !.string = string[m]]]
        IN  /\ CanAllocate(0..n) /\ (filled => type = "array")
            /\ cell' = IF filled THEN FilledList(made, a, items)
                       ELSE ParsedList(made, a, items)
            /\ holder' = [j \in Item |-> IF j \in Range(items) THEN a ELSE holder[j]]

AddToArray(a, i) ==
    /\ MayTake(a, "array", i)
    /\ cell' = AddItemToArray(cell, a, i)
    /\ holder' = [holder EXCEPT ![i] = a]

AddToObject(o, key, i) ==
    /\ MayTake(o, "object", i)
    /\ cell' = AddItemToObject(cell, o, key, i)
    /\ holder' = [holder EXCEPT ![i] = o]

\* cJSON_AddNumberToObject and its like: the item is made and added in one call.
AddNewToObject(o, key, t) ==
    /\ Owner(o, "object") /\ Unshared(o)
    /\ Free # {}
    /\ cell' = AddItemToObject(NewItem(cell, New, t), o, key, New)
    /\ holder' = [holder EXCEPT ![New] = o]

MayShow(a, type, i) ==
    /\ Owner(a, type) /\ \E t \in Container : Owner(i, t)
    /\ Unshared(a)
    /\ a \notin Whole(i) /\ Whole(i) \cap References = {}

AddReferenceToArray(a, i) ==
    /\ MayShow(a, "array", i)
    /\ Free # {}
    /\ cell' = AddItemToArray(CreateReference(cell, i, New), a, New)
    /\ holder' = [holder EXCEPT ![New] = a]

AddReferenceToObject(o, key, i) ==
    /\ MayShow(o, "object", i)
    /\ Free # {}
    /\ cell' = AddItemToObject(CreateReference(cell, i, New), o, key, New)
    /\ holder' = [holder EXCEPT ![New] = o]

Detach(p, type, i) ==
    /\ Owner(p, type) /\ Unshared(p) /\ i # NULL
    /\ cell' = DetachItemViaPointer(cell, p, i)
    /\ holder' = [holder EXCEPT ![i] = NULL]

DeleteFrom(p, type, i) ==
    /\ Owner(p, type) /\ Unshared(p) /\ i # NULL
    /\ Unseen(Whole(i))
    /\ cell' = Delete(DetachItemViaPointer(cell, p, i), i)
    /\ holder' = Forget(Whole(i))

DetachFromArray(a, which) == Detach(a, "array", GetArrayItem(cell, a, which))

DeleteFromArray(a, which) == DeleteFrom(a, "array", GetArrayItem(cell, a, which))

DetachFromObject(o, key, case_sensitive) ==
    Detach(o, "object", GetObjectItem(cell, o, key, case_sensitive))

DeleteFromObject(o, key, case_sensitive) ==
    DeleteFrom(o, "object", GetObjectItem(cell, o, key, case_sensitive))

DeleteRoot(i) ==
    /\ Root(i) /\ Unseen(Whole(i))
    /\ cell' = Delete(cell, i)
    /\ holder' = Forget(Whole(i))

InsertInArray(a, which, i) ==
    /\ MayTake(a, "array", i)
    /\ cell' = InsertItemInArray(cell, a, which, i)
    /\ holder' = [holder EXCEPT ![i] = a]

\* The memory h is the one before, but for the key of the replacement.
Replace(h, p, item, replacement) ==
    /\ item # NULL /\ Unseen(Whole(item))
    /\ cell' = Delete(ReplaceItemViaPointer(h, p, item, replacement), item)
    /\ holder' = [Forget(Whole(item)) EXCEPT ![replacement] = p]

ReplaceInArray(a, which, i) ==
    /\ MayTake(a, "array", i)
    /\ Replace(cell, a, GetArrayItem(cell, a, which), i)

\* Slip: the replacement keeps the key it had, or none.
ReplaceKeyless(o, key, i, case_sensitive) ==
    /\ MayTake(o, "object", i)
    /\ Replace(cell, o, GetObjectItem(cell, o, key, case_sensitive), i)

\* The replacement takes the key before it is known what it replaces.
ReplaceInObject(o, key, i, case_sensitive) ==
    LET renamed == [cell EXCEPT ![i].string = key]
        item == GetObjectItem(renamed, o, key, case_sensitive)
    IN  /\ MayTake(o, "object", i)
        /\ \/ Replace(renamed, o, item, i)
           \/ item = NULL /\ cell' = renamed /\ UNCHANGED holder

\* A caller copies what shows nothing by reference, as this program does, which copies
\* what it has parsed.  cJSON_Duplicate would copy what a reference shows as well, once
\* for each way that leads there: such copies are left out.
DuplicateItem(i, recurse) ==
    /\ cell[i].type # "free"
    /\ Whole(i) \cap References = {}
    /\ LET copied == IF recurse THEN Whole(i) ELSE {i}
           copy == Allocated(copied)
           old(j) == CHOOSE x \in copied : copy[x] = j
       IN
        /\ CanAllocate(copied)
        /\ cell' = Duplicate(cell, i, copy)
        /\ holder' = [j \in Item |->
                        IF j \notin Range(copy) THEN holder[j]
                        ELSE IF old(j) = i THEN NULL ELSE copy[holder[old(j)]]]

Owners(type) == {a \in Item : Owner(a, type)}

Roots == {i \in Item : Root(i)}

Used == Item \ Free

OnArrays(a) ==
    \/ \E i \in Roots :
          \/ AddToArray(a, i)
          \/ \E which \in 0..MaxIndex : InsertInArray(a, which, i) \/ ReplaceInArray(a, which, i)
    \/ \E i \in Used : AddReferenceToArray(a, i)
    \/ \E which \in 0..MaxIndex : DetachFromArray(a, which) \/ DeleteFromArray(a, which)

OnObjects(o) ==
    \E key \in Key :
       \/ \E i \in Roots : AddToObject(o, key, i)
       \/ \E i \in Used : AddReferenceToObject(o, key, i)
       \/ \E t \in Leaf \cup Container : AddNewToObject(o, key, t)
       \/ \E exact \in BOOLEAN :
             \/ \E i \in Roots : ReplaceInObject(o, key, i, exact)
             \/ DetachFromObject(o, key, exact)
             \/ DeleteFromObject(o, key, exact)

Next ==
    \/ \E t \in Leaf \cup Container : Create(t)
    \/ CreateWithItems
    \/ \E a \in Owners("array") : OnArrays(a)
    \/ \E o \in Owners("object") : OnObjects(o)
    \/ \E i \in Roots : DeleteRoot(i)
    \/ \E i \in Used, recurse \in BOOLEAN : DuplicateItem(i, recurse)

Spec == Init /\ [][Next]_vars

-------------------------------------------------------------------------------
(* Properties.                                                             *)

\* Cells keep the fields of struct cJSON, whatever call the caller makes, and memory
\* that was given back is what no container is taken to have.
TypeOK ==
    /\ cell \in [Item -> Cell]
    /\ holder \in [Item -> Pointer]
    /\ \A i \in Free : cell[i] = Blank /\ holder[i] = NULL

\* Lists are linked both ways: next and prev undo each other within a container,
\* its first item leads to its last one or to nothing, and what is in no container
\* leads nowhere.
LinksAgree ==
    \A i \in Item :
        /\ cell[i].next # NULL =>
              /\ holder[i] # NULL /\ holder[cell[i].next] = holder[i]
              /\ cell[cell[i].next].prev = i
        /\ holder[i] # NULL /\ cell[holder[i]].child # i =>
              cell[i].prev # NULL /\ cell[cell[i].prev].next = i
        /\ holder[i] # NULL /\ cell[holder[i]].child = i =>
              \/ cell[i].prev = NULL
              \/ cell[cell[i].prev].next = NULL /\ holder[cell[i].prev] = holder[i]
        /\ holder[i] = NULL => cell[i].next = NULL /\ cell[i].prev = NULL

\* Nothing is lost, given back twice or in two places: walking a container that owns
\* its list visits exactly what was put into it, each once.
WalksFindAll ==
    \A a \in Item : cell[a].type \in Container /\ ~cell[a].ref =>
        LET items == Elements(cell, a) IN
        Range(items) = {i \in Item : holder[i] = a} /\ IsInjective(items)

\* What is in use leads only to what is in use, references included, so that printing
\* or deleting an answer reads no memory that was given back.
NothingDangles ==
    \A i \in Item : cell[i].type # "free" =>
        \A j \in {cell[i].next, cell[i].prev, cell[i].child} \ {NULL} :
            cell[j].type # "free"

\* Whatever sequence of calls made them, containers hold exactly what was put into
\* them, linked both ways, and lead to no memory that was given back.
ListsAreWhole == TypeOK /\ LinksAgree /\ WalksFindAll /\ NothingDangles

\* Looking for a key finds the first item under it, in either way of comparing: no
\* item without a key hides those after it.
LookupsFindFirst ==
    \A o \in Item, key \in Key : cell[o].type = "object" =>
        LET items == Elements(cell, o)
            at(keys) == {n \in DOMAIN items : cell[items[n]].string \in keys}
            first(keys) == IF at(keys) = {} THEN NULL ELSE items[Min(at(keys))]
        IN  /\ GetObjectItem(cell, o, key, TRUE) = first({key})
            /\ GetObjectItem(cell, o, key, FALSE)
                  = first({k \in Key : Lower[k] = Lower[key]})

KeysDiffer ==
    \A i, j \in Item : holder[i] # NULL /\ holder[i] = holder[j] /\ i # j =>
        cell[i].string = NULL \/ cell[i].string # cell[j].string

\* A deep copy compares as equal to what it is made of, where no object has two items
\* under one key: what insert_room shows is the room that came.
CopiesAreEqual ==
    \A i \in Used :
        LET whole == Whole(i)
            copy == Allocated(whole)
        IN  whole \cap References = {} /\ CanAllocate(whole) /\ KeysDiffer =>
               Compare(Duplicate(cell, i, copy), i, copy[i], TRUE)

\* Those who read a tree, by key or as a copy, find in it what its maker put there.
ReadersAgree == LookupsFindFirst /\ CopiesAreEqual

\* The lists of the containers that have one of their own.
Lists(h) == [a \in {x \in Item : h[x].type \in Container /\ ~h[x].ref} |-> Elements(h, a)]

\* Containers are sequences to their callers: an item is added at the end, inserted right
\* before the one that had its place, detached or replaced where it is, whichever way the
\* list was linked and with the first, the last or the only item too; and no such call is
\* seen in another container.
CallsActOnSequences ==
    LET lists == Lists(cell) IN
    \A a \in DOMAIN lists : Unshared(a) =>
        LET s == lists[a]
            Becomes(h, t) == Lists(h) = [lists EXCEPT ![a] = t]
        IN  /\ \A k \in DOMAIN s : Becomes(DetachItemViaPointer(cell, a, s[k]), RemoveAt(s, k))
            /\ \A i \in Roots : MayTake(a, cell[a].type, i) =>
                 \A key \in IF cell[a].type = "object" THEN Key ELSE {cell[i].string} :
                   LET h == [cell EXCEPT ![i].string = key] IN
                   /\ Becomes(AddItemToArray(h, a, i), Append(s, i))
                   /\ \A k \in DOMAIN s :
                        /\ Becomes(InsertItemInArray(h, a, k - 1, i), InsertAt(s, k, i))
                        /\ Becomes(ReplaceItemViaPointer(h, a, s[k], i), ReplaceAt(s, k, i))

\* A call moves no item that it does not take out or put in: in every container the
\* items that stay come in the order they had, whatever is added, detached, replaced
\* or given back.
OrderStays ==
    [][\A a \in Item : ~cell[a].ref /\ cell[a].child # NULL /\ cell'[a].child # NULL =>
         LET s == Elements(cell, a)
             t == Elements(cell', a)
         IN  \A m, n \in DOMAIN s, p, q \in DOMAIN t :
                s[m] = t[p] /\ s[n] = t[q] /\ m < n => p < q]_vars
===============================================================================
