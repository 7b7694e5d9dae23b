-------------------------------- MODULE ToolPipe -------------------------------
(***************************************************************************)
(* Reading what a vendor's tool prints: ToolchainReader of re/toolchain    *)
(* and a caller that reads lines from it (get_parts of vivado-dump).       *)
(*                                                                         *)
(* The reader makes a directory with a named pipe, starts the tool in it   *)
(* and opens the pipe, which waits for the tool to open its end.  The tool *)
(* writes Lines lines and a line END, and waits while the pipe is full.    *)
(* When the caller has read END, or finds something wrong, it drops the    *)
(* reader: the pipe is closed, the tool waited for, the directory removed. *)
(* The tool may end at any time, leaving half a line behind.               *)
(*                                                                         *)
(* What is written is counted in halves of lines.                          *)
(***************************************************************************)
EXTENDS Naturals

CONSTANTS Lines,   \* how many lines the tool has to say before END
          Small,   \* the halves a pipe holds at first ...
          Large    \* ... and after F_SETPIPE_SZ

ASSUME SizesAssumption == Lines \in Nat /\ Small \in Nat \ {0} /\ Large \in Nat /\ Small <= Large

All == 2 * (Lines + 1)

VARIABLES reader,    \* where the reader is: "spawn", "open", "resize", "read", "drop", "wait", "unlink", "done"
          child,     \* "off", "starting", "opening", "writing", "ended"
          opened,    \* whether the tool's open of the pipe has succeeded
          closed,    \* whether the reader has no end of the pipe any more
          capacity,  \* what the pipe holds
          sent,      \* halves written by the tool
          fetched,   \* halves the reader has read
          lines,     \* lines the caller has used, whole or not
          torn,      \* whether the last of them was half a line
          verdict,   \* what the caller returns: "none", "ok", "err"
          tempdir    \* whether the directory is there

readerVars == <<reader, child, opened, closed, capacity, sent, fetched, lines, torn, verdict, tempdir>>

childVars == <<child, opened, sent>>
pipeVars == <<closed, capacity, fetched>>
callerVars == <<lines, torn, verdict>>

-----------------------------------------------------------------------------
PipeInit ==
    /\ reader = "spawn" /\ child = "off" /\ opened = FALSE /\ closed = FALSE
    /\ capacity = Small /\ sent = 0 /\ fetched = 0
    /\ lines = 0 /\ torn = FALSE /\ verdict = "none"
    /\ tempdir = TRUE

\* A mistake: the pipe is opened before the tool is started.
SpawnLate ==
    /\ reader = "spawn" /\ reader' = "open"
    /\ UNCHANGED <<childVars, pipeVars, callerVars, tempdir>>

\* The directory, its input files and the pipe are made, and the tool is started.
Spawn ==
    /\ reader = "spawn"
    /\ \/ reader' = "open" /\ child' = "starting" /\ UNCHANGED verdict
       \/ reader' = "unlink" /\ verdict' = "err" /\ UNCHANGED child
    /\ UNCHANGED <<opened, sent, pipeVars, lines, torn, tempdir>>

\* File::open: both ends wait for the other.
Open ==
    /\ reader = "open" /\ child = "opening"
    /\ reader' = "resize" /\ child' = "writing" /\ opened' = TRUE
    /\ UNCHANGED <<sent, pipeVars, callerVars, tempdir>>

\* File::open fails: the tool is not waited for (Child has no Drop of its own).
OpenFails ==
    /\ reader = "open"
    /\ reader' = "unlink" /\ verdict' = "err" /\ closed' = TRUE
    /\ UNCHANGED <<childVars, capacity, fetched, lines, torn, tempdir>>

\* F_SETPIPE_SZ, which may be refused.
Resize ==
    /\ reader = "resize"
    /\ reader' = "read"
    /\ capacity' \in {capacity, Large}
    /\ UNCHANGED <<childVars, closed, fetched, callerVars, tempdir>>

-----------------------------------------------------------------------------
(* The caller reads line by line.                                          *)

\* The buffer is empty up to half a line and the pipe has something.
Fill ==
    /\ reader = "read" /\ fetched < 2 * (lines + 1)
    /\ \E n \in 1..capacity : n <= sent - fetched /\ fetched' = fetched + n
    /\ UNCHANGED <<reader, childVars, closed, capacity, callerVars, tempdir>>

Leave(how) == reader' = "drop" /\ verdict' = how

\* A whole line: one more part, or END.
Line ==
    /\ reader = "read" /\ fetched >= 2 * (lines + 1)
    /\ IF lines = Lines THEN Leave("ok") ELSE UNCHANGED <<reader, verdict>>
    /\ lines' = lines + 1
    /\ UNCHANGED <<childVars, pipeVars, torn, tempdir>>

\* No tool holds the pipe open and it is empty.
Eof == child = "ended" /\ sent = fetched

\* A mistake: the end of the pipe is taken for the end of the list.
StopAtEof == Leave("ok") /\ UNCHANGED torn

\* The end of the pipe, where half a line counts as a line: it may just lack its end, or
\* the last of its fields, which may be missing.  The list is good if END was among them.
EndOfPipe ==
    \/ Leave("err") /\ UNCHANGED torn
    \/ /\ fetched = 2 * lines + 1 /\ ~torn
       /\ torn' = (lines < Lines)
       /\ IF lines = Lines THEN Leave("ok") ELSE UNCHANGED <<reader, verdict>>

AtEof ==
    /\ reader = "read" /\ fetched < 2 * (lines + 1) /\ Eof
    /\ EndOfPipe
    /\ UNCHANGED <<childVars, pipeVars, lines, tempdir>>

\* The caller does not like a line: it panics or returns, which drops the reader.
Dislike ==
    /\ reader = "read" /\ fetched >= 2 * (lines + 1)
    /\ Leave("err")
    /\ UNCHANGED <<childVars, pipeVars, lines, torn, tempdir>>

-----------------------------------------------------------------------------
(* Drop                                                                    *)

\* A mistake: the tool is waited for with the pipe still open.
WaitFirst ==
    /\ reader = "drop" /\ child = "ended"
    /\ reader' = "wait" /\ closed' = TRUE
    /\ UNCHANGED <<childVars, capacity, fetched, callerVars, tempdir>>

\* self.fifo = None
Close ==
    /\ reader = "drop"
    /\ reader' = "wait" /\ closed' = TRUE
    /\ UNCHANGED <<childVars, capacity, fetched, callerVars, tempdir>>

\* A mistake: the tool is left alone.
DontWait ==
    /\ reader = "wait"
    /\ reader' = "unlink"
    /\ UNCHANGED <<childVars, pipeVars, callerVars, tempdir>>

\* self.child.wait()
Wait ==
    /\ reader = "wait" /\ child = "ended"
    /\ reader' = "unlink"
    /\ UNCHANGED <<childVars, pipeVars, callerVars, tempdir>>

\* TempDir is dropped.
Unlink ==
    /\ reader = "unlink"
    /\ reader' = "done" /\ tempdir' = FALSE
    /\ UNCHANGED <<childVars, pipeVars, callerVars>>

Reader == Spawn \/ Open \/ Resize \/ Fill \/ Line \/ AtEof \/ Close \/ Wait \/ Unlink

-----------------------------------------------------------------------------
(* The tool, the child of the reader                                       *)

ChildOpens ==
    /\ child = "starting" /\ child' = "opening"
    /\ UNCHANGED <<reader, opened, sent, pipeVars, callerVars, tempdir>>

\* A write that waits while the pipe is full.
ChildWrites ==
    /\ child = "writing" /\ ~closed /\ sent < All /\ sent - fetched < capacity
    /\ sent' = sent + 1
    /\ UNCHANGED <<reader, child, opened, pipeVars, callerVars, tempdir>>

\* All is written, or the reader has gone (EPIPE).
ChildEnds ==
    /\ child = "writing" /\ (closed \/ sent = All)
    /\ child' = "ended"
    /\ UNCHANGED <<reader, opened, sent, pipeVars, callerVars, tempdir>>

\* The tool fails or is killed.
ChildDies ==
    /\ child \in {"starting", "opening", "writing"}
    /\ child' = "ended"
    /\ UNCHANGED <<reader, opened, sent, pipeVars, callerVars, tempdir>>

Child == ChildOpens \/ ChildWrites \/ ChildEnds

PipeNext == Reader \/ Child \/ OpenFails \/ Dislike \/ ChildDies

\* The reader's thread and the tool go on as long as they can: a tool that has nothing
\* more to write, or nobody to read it, ends.  Nothing is owed a failure.
PipeSpec == PipeInit /\ [][PipeNext]_readerVars /\ WF_readerVars(Reader) /\ WF_readerVars(Child)

-----------------------------------------------------------------------------
(* Properties                                                              *)

PipeTypeOK ==
    /\ reader \in {"spawn", "open", "resize", "read", "drop", "wait", "unlink", "done"}
    /\ child \in {"off", "starting", "opening", "writing", "ended"}
    /\ opened \in BOOLEAN /\ closed \in BOOLEAN /\ torn \in BOOLEAN /\ tempdir \in BOOLEAN
    /\ capacity \in {Small, Large}
    /\ sent \in 0..All /\ fetched \in 0..sent
    /\ lines \in 0..(Lines + 1)
    /\ verdict \in {"none", "ok", "err"}

\* A list is accepted only if it has every line the tool had to say, whole, although the
\* end of a pipe looks the same whether the tool has finished or died.
OkMeansAll == verdict = "ok" => lines >= Lines /\ ~torn /\ fetched >= 2 * Lines + 1

\* The tool's directory is there as long as the tool is, but for one it did not get to
\* open its pipe in because the reader could not.
DirOutlivesTool == ~tempdir /\ child # "off" => child = "ended" \/ (verdict = "err" /\ ~opened)

\* Once both have the pipe open the reader gets done, whether the caller reads all or
\* drops it with the tool waiting at a full pipe, and whatever the tool does.
Finishes == opened ~> reader = "done"

\* The opening of the pipe hangs only if the tool ends without having opened it.
HangsOnlyIfNeverOpened ==
    reader = "open" ~> (reader # "open" \/ (child = "ended" /\ ~opened))
=============================================================================
