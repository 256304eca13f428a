----------------------------- MODULE TelegramBot -----------------------------
(***************************************************************************)
(* Accounts forward a document to the bot, which downloads it to a file    *)
(* named after the document alone, and puts that file in the store under   *)
(* a key made of its first and its last part (blob.ContentKey reads a MiB  *)
(* of each).                                                               *)
(*                                                                         *)
(* Abstractions: one document, of Parts parts written in order; a file is  *)
(* the set of parts it holds, the others being holes; a file is named by   *)
(* the download that created it, so that a removed file can still be       *)
(* written to. The checks of plan, quota, size and name only refuse.       *)
(***************************************************************************)
EXTENDS Integers, FiniteSets

CONSTANTS
  Forward, Sender,   \* messages with the document, and the account that sends each
  Parts,             \* parts of the document, two at least
  NoFile

ASSUME BotAssumption ==
  /\ DOMAIN Sender = Forward /\ Parts \in Nat \ {0, 1} /\ NoFile \notin Forward

Account == {Sender[g] : g \in Forward}
Complete   == 1 .. Parts

VARIABLES
  progress,  \* message -> "sent", "created", "writing", "written", "keyed", "published", "over"
  fileRow,   \* account -> "none", "downloading", "complete", "failed": its row of the document
  path,      \* the file under the document's name, or NoFile
  data,      \* file -> the parts it holds
  writesTo,    \* message -> the file its download writes
  written,   \* message -> parts written so far
  fileKey,   \* message -> the key it computed
  kept,      \* the store: key -> parts, a partial function
  rowKey,    \* account -> the key its row names
  together,  \* ghost: downloads of two accounts have overlapped
  botCrashed \* ghost

files  == <<path, data>>
botVars ==
  <<progress, fileRow, files, writesTo, written, fileKey, kept, rowKey, together, botCrashed>>

BotInit ==
  /\ progress = [g \in Forward |-> "sent"] /\ fileRow = [a \in Account |-> "none"]
  /\ path = NoFile /\ data = [g \in Forward |-> {}] /\ writesTo = [g \in Forward |-> NoFile]
  /\ written = [g \in Forward |-> 0] /\ fileKey = [g \in Forward |-> {}]
  /\ kept = [k \in {} |-> {}] /\ rowKey = [a \in Account |-> {}]
  /\ together = FALSE /\ botCrashed = FALSE

Running(g) == progress[g] \notin {"sent", "over"}
GoesTo(g, s)   == progress' = [progress EXCEPT ![g] = s]

----------------------------------------------------------------------------
\* Bug: the row is created without a look at the account's others.
RowFreeAlways(a) == TRUE
\* CreateOnce: an account has one live row of a document.
RowFree(a) == fileRow[a] \in {"none", "failed"}

\* onMedia: refused, or a row is created.
Forwarded(g) ==
  /\ progress[g] = "sent"
  /\ IF RowFree(Sender[g])
     THEN GoesTo(g, "created") /\ fileRow' = [fileRow EXCEPT ![Sender[g]] = "downloading"]
     ELSE GoesTo(g, "over") /\ UNCHANGED fileRow
  /\ UNCHANGED <<files, writesTo, written, fileKey, kept, rowKey, together, botCrashed>>

\* os.Create: an existing file is emptied, whoever writes it.
CreateFile(g) ==
  /\ progress[g] = "created" /\ GoesTo(g, "writing")
  /\ path' = IF path = NoFile THEN g ELSE path
  /\ data' = [data EXCEPT ![path'] = {}] /\ writesTo' = [writesTo EXCEPT ![g] = path']
  /\ together' = (together \/ \E f \in Forward : Running(f) /\ Sender[f] # Sender[g])
  /\ UNCHANGED <<fileRow, written, fileKey, kept, rowKey, botCrashed>>

\* DownloadMedia writes on from where it is.
WritePart(g) ==
  /\ progress[g] = "writing" /\ written[g] < Parts
  /\ written' = [written EXCEPT ![g] = @ + 1]
  /\ data' = [data EXCEPT ![writesTo[g]] = @ \union {written'[g]}]
  /\ GoesTo(g, IF written'[g] = Parts THEN "written" ELSE "writing")
  /\ UNCHANGED <<fileRow, path, writesTo, fileKey, kept, rowKey, together, botCrashed>>

\* Bug: only a finished download removes its file.
AfterFailureStays == path
\* os.Remove takes the name away, whosever file it is now.
AfterFailure == NoFile

DownloadFails(g) ==
  /\ progress[g] = "writing" /\ GoesTo(g, "over") /\ path' = AfterFailure
  /\ fileRow' = [fileRow EXCEPT ![Sender[g]] = "failed"]
  /\ UNCHANGED <<data, writesTo, written, fileKey, kept, rowKey, together, botCrashed>>

----------------------------------------------------------------------------
\* ContentKey: the last part must be there; a hole reads as zeros.
ContentKeyOf(file) == data[file] \intersect {1, Parts}
Readable == path # NoFile /\ Parts \in data[path]

IngestFails(g) ==
  /\ GoesTo(g, "published") /\ fileRow' = [fileRow EXCEPT ![Sender[g]] = "failed"]
  /\ UNCHANGED <<files, writesTo, written, fileKey, kept, rowKey, together, botCrashed>>

KeyFile(g) ==
  /\ progress[g] = "written"
  /\ \/ /\ Readable /\ GoesTo(g, "keyed") /\ fileKey' = [fileKey EXCEPT ![g] = ContentKeyOf(path)]
        /\ UNCHANGED <<fileRow, files, writesTo, written, kept, rowKey, together, botCrashed>>
     \/ ~Readable /\ IngestFails(g)

\* Put: content the store has is not written again; then the manifest and the row.
IngestFile(g) ==
  /\ progress[g] = "keyed"
  /\ \/ /\ path # NoFile /\ GoesTo(g, "published")
        /\ kept' = IF fileKey[g] \in DOMAIN kept THEN kept
                   ELSE [k \in DOMAIN kept \union {fileKey[g]} |->
                           IF k = fileKey[g] THEN data[path] ELSE kept[k]]
        /\ rowKey' = [rowKey EXCEPT ![Sender[g]] = fileKey[g]]
        /\ fileRow' = [fileRow EXCEPT ![Sender[g]] = "complete"]
        /\ UNCHANGED <<files, writesTo, written, fileKey, together, botCrashed>>
     \/ IngestFails(g)

\* The deferred os.Remove.
RemoveFile(g) ==
  /\ progress[g] = "published" /\ GoesTo(g, "over") /\ path' = NoFile
  /\ UNCHANGED <<fileRow, data, writesTo, written, fileKey, kept, rowKey, together, botCrashed>>

----------------------------------------------------------------------------
DeleteFileRow(a) ==
  /\ fileRow[a] = "complete" /\ fileRow' = [fileRow EXCEPT ![a] = "none"]
  /\ UNCHANGED <<progress, files, writesTo, written, fileKey, kept, rowKey, together, botCrashed>>

\* The file stays, and the rows; nothing goes on with them.
BotCrashes ==
  /\ ~botCrashed /\ botCrashed' = TRUE /\ \E g \in Forward : Running(g)
  /\ progress' = [g \in Forward |-> IF Running(g) THEN "over" ELSE progress[g]]
  /\ UNCHANGED <<fileRow, files, writesTo, written, fileKey, kept, rowKey, together>>

BotStep(g) ==
  \/ Forwarded(g) \/ CreateFile(g) \/ WritePart(g) \/ DownloadFails(g)
  \/ KeyFile(g) \/ IngestFile(g) \/ RemoveFile(g)
BotNext == BotCrashes \/ (\E a \in Account : DeleteFileRow(a)) \/ \E g \in Forward : BotStep(g)
BotSpec == BotInit /\ [][BotNext]_botVars

----------------------------------------------------------------------------
\* The variables have the types the code gives them.
BotTypeOK ==
  /\ progress \in [Forward ->
       {"sent", "created", "writing", "written", "keyed", "published", "over"}]
  /\ fileRow \in [Account -> {"none", "downloading", "complete", "failed"}]
  /\ path \in Forward \union {NoFile} /\ data \in [Forward -> SUBSET Complete]

\* As long as no two accounts have had the bot download a document at the same time, what a
\* complete row names is the whole document: an account's own messages, failures and retries
\* never mix in the file. (Two accounts do mix: the second empties the file of the first, and
\* the holes lie between the parts the key is made of, so all later downloads share them.)
WholeUnlessTwoAtOnce ==
  ~together => \A a \in Account :
    fileRow[a] = "complete" => rowKey[a] \in DOMAIN kept /\ kept[rowKey[a]] = Complete

\* Without a crash no file is left when nothing runs.
NoFileLeft == ~botCrashed /\ (\A g \in Forward : ~Running(g)) => path = NoFile
=============================================================================
