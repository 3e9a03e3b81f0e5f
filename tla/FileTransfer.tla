------------------------------ MODULE FileTransfer ------------------------------
(***************************************************************************)
(* Files on their way to and from the server.                              *)
(*                                                                         *)
(* An upload has a connection of its own and a thread in the server, which *)
(* splices the connection's input stream into a file; the main loop goes   *)
(* on asking the same stream for lines (server.c, handle_request).  GLib   *)
(* lets one operation at a time run on a stream: a second one fails.       *)
(* A download also has a connection of its own, but is served by the main  *)
(* loop, which waits for the client's answer and does nothing else.        *)
(* In the client one thread runs the windows and everything else; it stops *)
(* while an upload waits for the server and while a download is saved.     *)
(*                                                                         *)
(* Each client process makes at most one upload and one download, and the  *)
(* module ends with the server process.                                    *)
(***************************************************************************)
EXTENDS Integers, FiniteSets

CONSTANTS
  Client,      \* clients, each signed in and a member of the one room
  Uploader,    \* those of them who upload
  Downloader,  \* those who download
  MaxSize      \* bound on the size of a file, in reads of the splice

ASSUME RoleAssumption == Uploader \subseteq Client /\ Downloader \subseteq Client
ASSUME SizeAssumption == MaxSize \in Nat \ {0}

VARIABLES
  up,        \* the server process runs
  main,      \* "loop", or the client for whose answer the main loop waits
  standing,  \* per client, what it is to the room: "member", "banned" or, the
             \* room being deleted, "gone"
  online,    \* the clients in the hash table info->users
  gui,       \* per client, what its one thread does
  size,      \* per upload, the size announced, or None
  sent,      \* per upload, what the client has written
  got,       \* per upload, what the thread has read
  lost,      \* per upload, what the main loop has read
  fin,       \* per upload, the client has closed its end
  open,      \* per upload, the server has not closed its end
  isFile,    \* per upload, t_client.is_file
  reader,    \* per upload, what the main loop does with its stream
  thread,    \* per upload, where upload_file_thread stands
  disk,      \* per upload, the file in VM_FILES_DIR
  stored,    \* per upload, its message is in MESSAGES
  download   \* per download, how far it is

None == -1

wire == <<size, sent, fin>>
vars == <<up, main, standing, online, gui, size, sent, got, lost, fin, open, isFile,
          reader, thread, disk, stored, download>>

Gui == {"free", "waiting", "sending", "saving", "off"}
Reader == {"none", "asked", "idle", "reading", "freed"}
Thread == {"none", "started", "between", "reading", "eof", "failed", "done", "closed", "end"}
Download == {"none", "asked", "ignored", "offered", "ready", "served", "done"}

TypeOK ==
  /\ up \in BOOLEAN
  /\ main \in {"loop"} \cup Client
  /\ standing \in [Client -> {"member", "banned", "gone"}]
  /\ online \subseteq Client
  /\ gui \in [Client -> Gui]
  /\ size \in [Client -> {None} \cup 0 .. MaxSize]
  /\ \A n \in {sent, got, lost} : n \in [Client -> 0 .. MaxSize]
  /\ \A b \in {fin, open, isFile, stored} : b \in [Client -> BOOLEAN]
  /\ reader \in [Client -> Reader]
  /\ thread \in [Client -> Thread]
  /\ disk \in [Client -> {"absent", "partial", "complete"}]
  /\ download \in [Client -> Download]

Init ==
  /\ up = TRUE /\ main = "loop" /\ online = Client
  /\ standing = [c \in Client |-> "member"]
  /\ gui = [c \in Client |-> "free"]
  /\ size = [c \in Client |-> None]
  /\ sent = [c \in Client |-> 0] /\ got = sent /\ lost = sent
  /\ fin = [c \in Client |-> FALSE]
  /\ isFile = fin /\ stored = fin
  /\ open = [c \in Client |-> TRUE]
  /\ reader = [c \in Client |-> "none"] /\ thread = reader /\ download = reader
  /\ disk = [c \in Client |-> "absent"]

\* Written and not read by anyone.
Waiting(c) == sent[c] - got[c] - lost[c]

-------------------------------------------------------------------------------
(* The client: client/src/json_objects/upload_file.c and download_file.c.  *)

AskUpload(c) == \E n \in 0 .. MaxSize :
  /\ c \in Uploader
  /\ up /\ gui[c] = "free" /\ size[c] = None
  /\ size' = [size EXCEPT ![c] = n]
  /\ gui' = [gui EXCEPT ![c] = "waiting"]
  /\ reader' = [reader EXCEPT ![c] = "asked"]
  /\ UNCHANGED <<up, main, standing, online, sent, got, lost, fin, open, isFile,
                 thread, disk, stored, download>>

\* is_server_ready has read the answer that the thread sends.
GetReady(c) ==
  /\ gui[c] = "waiting" /\ thread[c] \notin {"none", "started"}
  /\ gui' = [gui EXCEPT ![c] = "sending"]
  /\ UNCHANGED <<up, main, standing, online, wire, got, lost, open, isFile, reader,
                 thread, disk, stored, download>>

\* (Slip: one read beyond the end.)
SendBeyond(c) ==
  /\ gui[c] = "sending" /\ sent[c] <= size[c] /\ open[c] /\ up
  /\ sent' = [sent EXCEPT ![c] = @ + 1]
  /\ UNCHANGED <<up, main, standing, online, gui, size, got, lost, fin, open, isFile,
                 reader, thread, disk, stored, download>>

SendChunk(c) ==
  /\ gui[c] = "sending" /\ sent[c] < size[c] /\ open[c] /\ up
  /\ sent' = [sent EXCEPT ![c] = @ + 1]
  /\ UNCHANGED <<up, main, standing, online, gui, size, got, lost, fin, open, isFile,
                 reader, thread, disk, stored, download>>

\* (Slip: the client's end stays open.)
FinishOpen(c) ==
  /\ gui[c] = "sending" /\ (sent[c] = size[c] \/ ~open[c] \/ ~up)
  /\ gui' = [gui EXCEPT ![c] = "free"]
  /\ UNCHANGED <<up, main, standing, online, wire, got, lost, open, isFile, reader,
                 thread, disk, stored, download>>

\* Everything is written, or the server's end is closed.
Finish(c) ==
  /\ gui[c] = "sending" /\ (sent[c] = size[c] \/ ~open[c] \/ ~up)
  /\ gui' = [gui EXCEPT ![c] = "free"]
  /\ fin' = [fin EXCEPT ![c] = TRUE]
  /\ UNCHANGED <<up, main, standing, online, size, sent, got, lost, open, isFile, reader,
                 thread, disk, stored, download>>

AskDownload(c) ==
  /\ c \in Downloader
  /\ up /\ gui[c] = "free" /\ download[c] = "none"
  /\ download' = [download EXCEPT ![c] = "asked"]
  /\ UNCHANGED <<up, main, standing, online, gui, wire, got, lost, open, isFile, reader,
                 thread, disk, stored>>

\* file_ready runs when the windows' thread comes to it; it answers, and then
\* reads the file to its end before anything else.
AcceptOffer(c) ==
  /\ gui[c] = "free" /\ download[c] = "offered"
  /\ gui' = [gui EXCEPT ![c] = "saving"]
  /\ download' = [download EXCEPT ![c] = "ready"]
  /\ UNCHANGED <<up, main, standing, online, wire, got, lost, open, isFile, reader,
                 thread, disk, stored>>

Saved(c) ==
  /\ gui[c] = "saving" /\ download[c] = "served"
  /\ gui' = [gui EXCEPT ![c] = "free"]
  /\ download' = [download EXCEPT ![c] = "done"]
  /\ UNCHANGED <<up, main, standing, online, wire, got, lost, open, isFile, reader,
                 thread, disk, stored>>

\* The server is gone: what waited for it reads the end of the stream.
ServerGone(c) ==
  /\ ~up /\ gui[c] \in {"waiting", "saving"}
  /\ gui' = [gui EXCEPT ![c] = "free"]
  /\ UNCHANGED <<up, main, standing, online, wire, got, lost, open, isFile, reader,
                 thread, disk, stored, download>>

\* The client process is ended from outside.
Kill(c) ==
  /\ gui[c] # "off"
  /\ gui' = [gui EXCEPT ![c] = "off"]
  /\ fin' = [fin EXCEPT ![c] = TRUE]
  /\ UNCHANGED <<up, main, standing, online, size, sent, got, lost, open, isFile, reader,
                 thread, disk, stored, download>>

-------------------------------------------------------------------------------
(* The main loop of the server.                                            *)

Loop == up /\ main = "loop"

\* Another client's request is handled: a ban, or the end of the room.
Rule(c) ==
  /\ Loop
  /\ \/ standing[c] = "member" /\ standing' = [standing EXCEPT ![c] = "banned"]
     \/ standing[c] # "gone" /\ standing' = [d \in Client |-> "gone"]
  /\ UNCHANGED <<up, main, online, gui, wire, got, lost, open, isFile, reader, thread,
                 disk, stored, download>>

\* (Slip: the connection is not marked as a file's.)
MarkNothing(c) == isFile' = isFile

MarkFile(c) == isFile' = [isFile EXCEPT ![c] = TRUE]

\* upload_file_response: a member gets a thread; anyone else gets no answer.
HandleUpload(c) ==
  /\ Loop /\ reader[c] = "asked"
  /\ MarkFile(c)
  /\ \/ /\ standing[c] = "member"
        /\ thread' = [thread EXCEPT ![c] = "started"]
        /\ reader' = [reader EXCEPT ![c] = "idle"]
     \/ /\ standing[c] # "member"
        /\ reader' = [reader EXCEPT ![c] = "reading"]
        /\ UNCHANGED thread
  /\ UNCHANGED <<up, main, standing, online, gui, wire, got, lost, open, disk, stored,
                 download>>

\* The next line is asked for; while the thread reads, that fails at once and
\* is tried again.
ReadLine(c) ==
  /\ Loop /\ reader[c] = "idle" /\ open[c] /\ thread[c] # "reading"
  /\ reader' = [reader EXCEPT ![c] = "reading"]
  /\ UNCHANGED <<up, main, standing, online, gui, wire, got, lost, open, isFile, thread,
                 disk, stored, download>>

\* A part of the file without the end of a line: it stays in the buffer of the
\* main loop's stream.
TakeChunk(c) ==
  /\ Loop /\ reader[c] = "reading" /\ open[c] /\ Waiting(c) > 0
  /\ lost' = [lost EXCEPT ![c] = @ + 1]
  /\ reader' = [reader EXCEPT ![c] = "idle"]
  /\ UNCHANGED <<up, main, standing, online, gui, wire, got, open, isFile, thread, disk,
                 stored, download>>

\* A part of the file is taken for a line, or what the buffer held is one at the
\* end: json_manager asks cJSON for the token of what is no JSON, a NULL.
TakeLine(c) ==
  /\ Loop /\ reader[c] = "reading" /\ open[c]
  /\ \/ Waiting(c) > 0
     \/ Waiting(c) = 0 /\ fin[c] /\ lost[c] > 0
  /\ up' = FALSE
  /\ UNCHANGED <<main, standing, online, gui, wire, got, lost, open, isFile, reader,
                 thread, disk, stored, download>>

\* The end of the stream is no line.
TakeEnd(c) ==
  /\ Loop /\ reader[c] = "reading" /\ open[c]
  /\ Waiting(c) = 0 /\ fin[c] /\ lost[c] = 0
  /\ reader' = [reader EXCEPT ![c] = "idle"]
  /\ UNCHANGED <<up, main, standing, online, gui, wire, got, lost, open, isFile, thread,
                 disk, stored, download>>

\* deinit_client, once the server's own end is closed: it frees t_client, and
\* signs the user out unless the connection was a file's.
Deinit(c) ==
  /\ Loop /\ reader[c] \in {"idle", "reading"} /\ ~open[c]
  /\ reader' = [reader EXCEPT ![c] = "freed"]
  /\ online' = IF isFile[c] THEN online ELSE online \ {c}
  /\ UNCHANGED <<up, main, standing, gui, wire, got, lost, open, isFile, thread, disk,
                 stored, download>>

\* download_file_response: a member is told the file's size, and the main loop
\* waits for its answer.
HandleDownload(c) ==
  /\ Loop /\ download[c] = "asked"
  /\ \/ /\ standing[c] = "member"
        /\ download' = [download EXCEPT ![c] = "offered"]
        /\ main' = c
     \/ /\ standing[c] # "member"
        /\ download' = [download EXCEPT ![c] = "ignored"]
        /\ UNCHANGED main
  /\ UNCHANGED <<up, standing, online, gui, wire, got, lost, open, isFile, reader, thread,
                 disk, stored>>

ServeDownload(c) ==
  /\ up /\ main = c /\ download[c] = "ready"
  /\ main' = "loop"
  /\ download' = [download EXCEPT ![c] = "served"]
  /\ UNCHANGED <<up, standing, online, gui, wire, got, lost, open, isFile, reader, thread,
                 disk, stored>>

\* The client is gone before it answered: read_line returns NULL, and so does
\* cJSON_Parse, and download asks for the token of that.
LoseDownloader(c) ==
  /\ up /\ main = c /\ download[c] = "offered" /\ gui[c] = "off"
  /\ up' = FALSE
  /\ UNCHANGED <<main, standing, online, gui, wire, got, lost, open, isFile, reader, thread,
                 disk, stored, download>>

-------------------------------------------------------------------------------
(* upload_file_thread and server/src/api/read_file.c.                      *)

\* read_file_req: the file is created, the client is told.
CreateFile(c) ==
  /\ up /\ thread[c] = "started"
  /\ thread' = [thread EXCEPT ![c] = "between"]
  /\ disk' = [disk EXCEPT ![c] = "partial"]
  /\ UNCHANGED <<up, main, standing, online, gui, wire, got, lost, open, isFile, reader,
                 stored, download>>

\* The splice reads again, which fails while the main loop reads.
SpliceRead(c) ==
  /\ up /\ thread[c] = "between"
  /\ thread' = [thread EXCEPT ![c] = IF reader[c] = "reading" THEN "failed" ELSE "reading"]
  /\ UNCHANGED <<up, main, standing, online, gui, wire, got, lost, open, isFile, reader,
                 disk, stored, download>>

SpliceGet(c) ==
  /\ up /\ thread[c] = "reading"
  /\ \/ /\ Waiting(c) > 0
        /\ got' = [got EXCEPT ![c] = @ + 1]
        /\ thread' = [thread EXCEPT ![c] = "between"]
     \/ /\ Waiting(c) = 0 /\ fin[c]
        /\ thread' = [thread EXCEPT ![c] = "eof"]
        /\ UNCHANGED got
  /\ UNCHANGED <<up, main, standing, online, gui, wire, lost, open, isFile, reader, disk,
                 stored, download>>

\* (Slip: that the splice succeeded is enough.)
IsValidAnySize(c) == thread[c] = "eof"

\* is_valid: as many bytes as announced.
IsValid(c) == thread[c] = "eof" /\ got[c] = size[c]

DeletePart(c) == disk' = [disk EXCEPT ![c] = "absent"]

\* A valid file becomes a message, without another look at the membership; any
\* other is deleted.
StoreFile(c) ==
  /\ up /\ thread[c] \in {"eof", "failed"}
  /\ \/ /\ IsValid(c)
        /\ disk' = [disk EXCEPT ![c] = "complete"]
        /\ stored' = [stored EXCEPT ![c] = TRUE]
     \/ /\ ~IsValid(c)
        /\ DeletePart(c)
        /\ UNCHANGED stored
  /\ thread' = [thread EXCEPT ![c] = "done"]
  /\ UNCHANGED <<up, main, standing, online, gui, wire, got, lost, open, isFile, reader,
                 download>>

CloseUpload(c) ==
  /\ up /\ thread[c] = "done"
  /\ thread' = [thread EXCEPT ![c] = "closed"]
  /\ open' = [open EXCEPT ![c] = FALSE]
  /\ UNCHANGED <<up, main, standing, online, gui, wire, got, lost, isFile, reader, disk,
                 stored, download>>

\* client->upload_file = FALSE, the last thing the thread does.
EndThread(c) ==
  /\ up /\ thread[c] = "closed"
  /\ thread' = [thread EXCEPT ![c] = "end"]
  /\ UNCHANGED <<up, main, standing, online, gui, wire, got, lost, open, isFile, reader,
                 disk, stored, download>>

-------------------------------------------------------------------------------

Windows(c) ==
  GetReady(c) \/ SendChunk(c) \/ Finish(c) \/ AcceptOffer(c) \/ Saved(c) \/ ServerGone(c)

MainLoop(c) ==
  \/ HandleUpload(c) \/ ReadLine(c) \/ TakeChunk(c) \/ TakeLine(c) \/ TakeEnd(c)
  \/ Deinit(c) \/ HandleDownload(c) \/ ServeDownload(c) \/ LoseDownloader(c)

UploadThread(c) ==
  \/ CreateFile(c) \/ SpliceRead(c) \/ SpliceGet(c) \/ StoreFile(c)
  \/ CloseUpload(c) \/ EndThread(c)

Next == \E c \in Client :
  \/ AskUpload(c) \/ AskDownload(c) \/ Kill(c) \/ Rule(c)
  \/ Windows(c) \/ MainLoop(c) \/ UploadThread(c)

Spec == Init /\ [][Next]_vars

\* The windows' thread of a client that is not killed, each thread of the server
\* and, for each connection, the main loop go on.
Fairness == \A c \in Client :
  WF_vars(Windows(c)) /\ WF_vars(MainLoop(c)) /\ WF_vars(UploadThread(c))

FairSpec == Spec /\ Fairness

-------------------------------------------------------------------------------
(* Properties.                                                             *)

\* A message for a file is only ever written for a file that is all there,
\* however the main loop and the thread share the stream.
StoredIsWhole == \A c \in Client :
  stored[c] => disk[c] = "complete" /\ got[c] = size[c] /\ lost[c] = 0

\* An upload that fails, for whatever reason but the end of the process, leaves
\* no part of the file behind.
NoPartsLeft == \A c \in Client :
  up /\ thread[c] \in {"done", "closed", "end"} => (disk[c] # "absent" <=> stored[c])

\* An upload leaves a whole file with a message for it, or nothing.
UploadsAreWhole == StoredIsWhole /\ NoPartsLeft

\* Closing the connection of a file leaves its user in the hash table.
TransfersKeepSession == \A c \in Client : c \in online

\* An upload that was let in comes to an end, for the thread and for the client,
\* even while the main loop waits for a download or the client is killed.
UploadsEnd == \A c \in Client :
  thread[c] = "started" ~>
    (thread[c] = "end" /\ gui[c] \notin {"waiting", "sending"}) \/ ~up
===============================================================================
