------------------------------- MODULE FileProofs -------------------------------
(* What holds of files on their way, for every number of clients and every  *)
(* size.                                                                    *)
EXTENDS FileTransfer, TLAPS

\* Nothing is read that was not written, and no more is written than announced.
Flow(c) ==
  /\ got[c] + lost[c] <= sent[c]
  /\ size[c] # None => sent[c] <= size[c]
  /\ size[c] = None => sent[c] = 0 /\ reader[c] = "none"
  /\ reader[c] \in {"none", "asked"} => thread[c] = "none"

\* The file on the disk follows the thread, and its message the file.
FileFollows(c) ==
  /\ thread[c] \in {"none", "started"} => disk[c] = "absent" /\ ~stored[c]
  /\ thread[c] \in {"between", "reading", "eof", "failed"} => disk[c] = "partial" /\ ~stored[c]
  /\ thread[c] \in {"done", "closed", "end"} =>
       \/ disk[c] = "complete" /\ stored[c] /\ got[c] = size[c]
       \/ disk[c] = "absent" /\ ~stored[c]

\* The main loop reads again only from a connection it has marked.
Marked(c) == reader[c] \in {"idle", "reading", "freed"} => isFile[c]

Inv ==
  /\ TypeOK
  /\ \A c \in Client : Flow(c) /\ FileFollows(c) /\ Marked(c)
  /\ online = Client

(* The invariant holds when the server has started.                        *)
LEMMA InitInv == Init => Inv
  BY SizeAssumption
  DEF Init, Inv, TypeOK, Flow, FileFollows, Marked, None, Gui, Reader, Thread, Download

(* No step of a client's windows breaks the invariant.                     *)
LEMMA WindowsInv ==
  ASSUME Inv, NEW c \in Client,
         AskUpload(c) \/ AskDownload(c) \/ Kill(c) \/ Rule(c) \/ Windows(c)
  PROVE  Inv'
<1> USE SizeAssumption
        DEF Inv, TypeOK, Flow, FileFollows, Marked, None, Gui, Reader, Thread, Download, wire
<1>1. CASE AskUpload(c)
  BY <1>1 DEF AskUpload
<1>2. CASE AskDownload(c)
  BY <1>2 DEF AskDownload
<1>3. CASE Kill(c)
  BY <1>3 DEF Kill
<1>4. CASE Rule(c)
  BY <1>4 DEF Rule
<1>5. CASE GetReady(c)
  BY <1>5 DEF GetReady
<1>6. CASE SendChunk(c)
  BY <1>6 DEF SendChunk
<1>7. CASE Finish(c)
  BY <1>7 DEF Finish
<1>8. CASE AcceptOffer(c) \/ Saved(c) \/ ServerGone(c)
  BY <1>8 DEF AcceptOffer, Saved, ServerGone
<1> QED
  BY <1>1, <1>2, <1>3, <1>4, <1>5, <1>6, <1>7, <1>8 DEF Windows

(* No step of the server's main loop breaks the invariant.                 *)
LEMMA MainLoopInv ==
  ASSUME Inv, NEW c \in Client, MainLoop(c)
  PROVE  Inv'
<1> USE SizeAssumption
        DEF Inv, TypeOK, Flow, FileFollows, Marked, None, Gui, Reader, Thread, Download, wire,
            Loop
<1>1. CASE HandleUpload(c)
  BY <1>1 DEF HandleUpload, MarkFile
<1>2. CASE ReadLine(c)
  BY <1>2 DEF ReadLine
<1>3. CASE TakeChunk(c)
  BY <1>3 DEF TakeChunk, Waiting
<1>4. CASE TakeLine(c)
  BY <1>4 DEF TakeLine
<1>5. CASE TakeEnd(c)
  BY <1>5 DEF TakeEnd
<1>6. CASE Deinit(c)
  BY <1>6 DEF Deinit
<1>7. CASE HandleDownload(c)
  BY <1>7 DEF HandleDownload
<1>8. CASE ServeDownload(c)
  BY <1>8 DEF ServeDownload
<1>9. CASE LoseDownloader(c)
  BY <1>9 DEF LoseDownloader
<1> QED
  BY <1>1, <1>2, <1>3, <1>4, <1>5, <1>6, <1>7, <1>8, <1>9, MainLoop(c) DEF MainLoop

(* No step of an upload's thread breaks the invariant.                     *)
LEMMA UploadThreadInv ==
  ASSUME Inv, NEW c \in Client, UploadThread(c)
  PROVE  Inv'
<1> USE SizeAssumption
        DEF Inv, TypeOK, Flow, FileFollows, Marked, None, Gui, Reader, Thread, Download, wire
<1>1. CASE CreateFile(c)
  BY <1>1 DEF CreateFile
<1>2. CASE SpliceRead(c)
  BY <1>2 DEF SpliceRead
<1>3. CASE SpliceGet(c)
  BY <1>3 DEF SpliceGet, Waiting
<1>4. CASE StoreFile(c)
  <2>1. CASE IsValid(c)
    <3>1. /\ thread' = [thread EXCEPT ![c] = "done"]
          /\ disk' = [disk EXCEPT ![c] = "complete"]
          /\ stored' = [stored EXCEPT ![c] = TRUE]
          /\ UNCHANGED <<up, main, standing, online, gui, wire, got, lost, open, isFile,
                         reader, download>>
      BY <1>4, <2>1 DEF StoreFile
    <3>2. thread[c] = "eof" /\ got[c] = size[c]
      BY <2>1 DEF IsValid
    <3>3. TypeOK'
      BY <3>1
    <3>4. (\A d \in Client : FileFollows(d))'
      BY <3>1, <3>2
    <3>5. (\A d \in Client : Flow(d) /\ Marked(d))' /\ online' = Client
      BY <3>1, <3>2
    <3> QED
      BY <3>3, <3>4, <3>5
  <2>2. CASE ~IsValid(c)
    BY <1>4, <2>2 DEF StoreFile, DeletePart
  <2> QED
    BY <2>1, <2>2
<1>5. CASE CloseUpload(c)
  BY <1>5 DEF CloseUpload
<1>6. CASE EndThread(c)
  BY <1>6 DEF EndThread
<1> QED
  BY <1>1, <1>2, <1>3, <1>4, <1>5, <1>6, UploadThread(c) DEF UploadThread

(* Nothing in the invariant changes when nothing happens.                  *)
LEMMA StutterInv == Inv /\ UNCHANGED vars => Inv'
  BY DEF Inv, TypeOK, Flow, FileFollows, Marked, vars

(* Every reachable state satisfies the invariant: upload_file_thread,      *)
(* handle_request and deinit_client taken together.                        *)
THEOREM Invariance == Spec => []Inv
<1>1. Inv /\ [Next]_vars => Inv'
  BY WindowsInv, MainLoopInv, UploadThreadInv, StutterInv DEF Next
<1> QED
  BY InitInv, <1>1, PTL DEF Spec

(* The variables of a transfer keep their types: no more of a file is ever *)
(* written or read than MaxSize.                                           *)
THEOREM TypeCorrect == Spec => []TypeOK
<1>1. Inv => TypeOK
  BY DEF Inv
<1> QED
  BY Invariance, <1>1, PTL

(* The message of an upload is stored only with the whole of its file on   *)
(* the disk (StoredIsWhole), and a failed upload leaves no part of it      *)
(* (NoPartsLeft): upload_file_thread, read_file_req, is_valid.             *)
THEOREM FilesAreWhole == Spec => []UploadsAreWhole
<1>1. Inv => StoredIsWhole
  <2> SUFFICES ASSUME Inv, NEW c \in Client, stored[c]
               PROVE  disk[c] = "complete" /\ got[c] = size[c] /\ lost[c] = 0
    BY DEF StoredIsWhole
  <2>1. disk[c] = "complete" /\ got[c] = size[c]
    BY DEF Inv, FileFollows, TypeOK, Thread
  <2>2. got[c] \in Nat /\ lost[c] \in Nat /\ sent[c] \in Nat
    BY SizeAssumption DEF Inv, TypeOK
  <2>3. size[c] # None /\ got[c] + lost[c] <= size[c]
    BY <2>1, <2>2 DEF Inv, Flow, None
  <2> QED
    BY <2>1, <2>2, <2>3
<1>2. Inv => NoPartsLeft
  BY DEF Inv, FileFollows, NoPartsLeft
<1>3. Inv => UploadsAreWhole
  BY <1>1, <1>2 DEF UploadsAreWhole
<1> QED
  BY Invariance, <1>3, PTL

(* The end of a file's connection never signs its user out: deinit_client  *)
(* looks at is_file, which upload_file_response set.                       *)
THEOREM SessionsSurvive == Spec => []TransfersKeepSession
<1>1. Inv => TransfersKeepSession
  BY DEF Inv, TransfersKeepSession
<1> QED
  BY Invariance, <1>1, PTL
===============================================================================
