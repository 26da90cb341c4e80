------------------------------- MODULE Logs --------------------------------
(***************************************************************************)
(* A log (log/log.c, logging.c): the list of its lines, the pointer to the *)
(* last line written, the file, and the state in_use.  Every thread adds   *)
(* lines under the lock of the logger; the log thread writes them with the *)
(* lock given up, and another thread may close or reopen the log then.     *)
(*                                                                         *)
(* Lines are numbered in the order they are logged.  do_log_run calls      *)
(* itself: _log_open runs it again when a file cannot be opened, and       *)
(* _log_close_internal runs it before it frees the log.  The calls are a   *)
(* stack, and a step is what a thread does up to the next choice; the lock *)
(* is given up only around the write of a line.                            *)
(***************************************************************************)
EXTENDS Integers, Sequences, SequencesExt, FiniteSets

CONSTANTS
    RunLimit,       \* lines of a do_log_run, 300 in the code
    CloseRuns,      \* runs of _log_close_internal, fewer than 10 in the code
    Keeps,          \* values of keep_entries
    MaxLines,       \* bound: lines logged after an open
    MaxOpens,       \* bound: opens of the log
    MaxReopens      \* bound: log_reopen calls

Runner == {"logger", "closer"}

VARIABLES
    held,           \* the log id is known: the log is open for its user
    inUse,          \* in_use: 0, 1, or 3 during do_log_run
    lines,          \* log_head to log_tail
    badTail,        \* log_tail points to a freed entry
    written,        \* written_entry, 0 for NULL
    keep,           \* keep_entries
    file,           \* logfile
    due,            \* the trigger size is passed or reopen_at has come
    made, out,      \* lines logged, last line written
    lock,           \* holder of the logger lock
    pc, stack,      \* the runs of each thread, the innermost first
    line, loop,     \* next and loop of the innermost run
    tries,          \* loop of _log_close_internal
    signal,         \* bytes in the pipe of the log thread
    fault,          \* memory or a file used after it was freed
    overlap,        \* the log thread ran while another one was closing the log
    noOpen,         \* a file could not be opened
    opens, reopens  \* uses of the bounds

(* what the proofs need of the constants *)
Settings ==
    /\ RunLimit \in Nat \ {0} /\ CloseRuns \in Nat \ {0} /\ Keeps \subseteq Nat
    /\ MaxLines \in Nat /\ MaxOpens \in Nat /\ MaxReopens \in Nat

logVars == <<held, inUse, lines, badTail, written, keep, file, due>>
runVars == <<pc, stack, line, loop, tries>>
vars == <<held, inUse, lines, badTail, written, keep, file, due, made, out, lock, pc,
          stack, line, loop, tries, signal, fault, overlap, noOpen, opens, reopens>>

Frame == {"commit", "nested", "close"}

TypeOK ==
    /\ held \in BOOLEAN /\ inUse \in {0, 1, 3}
    /\ lines \in Seq(1 .. MaxLines) /\ badTail \in BOOLEAN
    /\ written \in 0 .. MaxLines /\ keep \in Keeps
    /\ file \in {"none", "open", "stderr"} /\ due \in BOOLEAN
    /\ made \in 0 .. MaxLines /\ out \in 0 .. MaxLines
    /\ lock \in Runner \cup {"none"}
    /\ pc \in [Runner -> {"idle", "begin", "loop", "print", "end"}]
    /\ stack \in [Runner -> Seq(Frame)]
    /\ line \in [Runner -> 0 .. MaxLines]
    /\ loop \in [Runner -> 0 .. RunLimit] /\ tries \in [Runner -> 0 .. CloseRuns]
    /\ signal \in BOOLEAN
    /\ fault \in {"no", "entry", "file", "tail"}
    /\ overlap \in BOOLEAN /\ noOpen \in BOOLEAN
    /\ opens \in 0 .. MaxOpens /\ reopens \in 0 .. MaxReopens

Set(r, p, s, l, n) ==
    /\ pc' = [pc EXCEPT ![r] = p] /\ stack' = [stack EXCEPT ![r] = s]
    /\ line' = [line EXCEPT ![r] = l] /\ loop' = [loop EXCEPT ![r] = n]

(* log_open, with _get_log_id *)
ResetTail == FALSE

Open ==
    /\ lock = "none" /\ ~held /\ inUse = 0 /\ opens < MaxOpens
    /\ held' = TRUE /\ inUse' = 1 /\ opens' = opens + 1
    /\ lines' = <<>> /\ badTail' = ResetTail /\ file' = "none" /\ due' = FALSE
    /\ made' = 0 /\ out' = 0
    /\ UNCHANGED <<written, keep, lock, runVars, signal, fault, overlap, noOpen, reopens>>

(* log_entry_pop: the last line written and what follows it stay *)
Pops(s) == s # <<>> /\ written # 0 /\ written # Head(s)

(* do_purge: the lines left are a suffix of s *)
Purged(s) ==
    LET Rest(k) == SubSeq(s, k + 1, Len(s))
        stops(k) == Len(s) - k <= keep \/ ~Pops(Rest(k))
    IN Rest(CHOOSE k \in 0 .. Len(s) : stops(k) /\ \A j \in 0 .. k - 1 : ~stops(j))

(* log_write and log_write_direct: create_log_entry, the signal, do_purge.  *)
(* A line logged on a closed slot is linked to the tail that was freed.    *)
Write ==
    /\ lock = "none" /\ held /\ made < MaxLines
    /\ made' = made + 1
    /\ fault' = IF badTail THEN "tail" ELSE fault
    /\ lines' = Purged(Append(lines, made + 1))
    /\ signal' = TRUE
    /\ UNCHANGED <<held, inUse, badTail, written, keep, file, due, out, lock, runVars,
                   overlap, noOpen, opens, reopens>>

(* restart_logging on a log that stays: recheck_log_file sets the name and *)
(* calls log_reopen, which may find the file in place; then the settings   *)
Reload ==
    /\ lock = "none" /\ held /\ reopens < MaxReopens
    /\ reopens' = reopens + 1
    /\ \E k \in Keeps : keep' = k
    /\ file' \in {file, "none"}
    /\ fault' = IF file' # file /\ \E r \in Runner : pc[r] = "print" THEN "file" ELSE fault
    /\ UNCHANGED <<held, inUse, lines, badTail, written, due, made, out, lock, runVars,
                   signal, overlap, noOpen, opens>>

(* log_close: a run in progress is told by in_use to close the log; the id *)
(* is not used again *)
Close ==
    /\ lock = "none" /\ held /\ pc["closer"] = "idle"
    /\ held' = FALSE
    /\ \/ inUse = 3 /\ inUse' = 1 /\ UNCHANGED <<lock, runVars>>
       \/ inUse = 0 /\ UNCHANGED <<inUse, lock, runVars>>
       \/ /\ inUse = 1
          /\ lock' = "closer" /\ Set("closer", "begin", <<"close">>, 0, 0)
          /\ tries' = [tries EXCEPT !["closer"] = 1]
          /\ UNCHANGED inUse
    /\ UNCHANGED <<lines, badTail, written, keep, file, due, made, out, signal, fault,
                   overlap, noOpen, opens, reopens>>

(* log_commit_thread and log_commit_entries *)
Commit ==
    /\ lock = "none" /\ pc["logger"] = "idle" /\ signal
    /\ signal' = FALSE
    /\ IF inUse = 0 THEN UNCHANGED <<lock, runVars, overlap>>
       ELSE /\ lock' = "logger" /\ Set("logger", "begin", <<"commit">>, 0, 0)
            /\ overlap' = (overlap \/ pc["closer"] # "idle")
            /\ UNCHANGED tries
    /\ UNCHANGED <<logVars, made, out, fault, noOpen, opens, reopens>>

(* the line a run starts with *)
After(n) ==
    IF \E i \in DOMAIN lines : lines[i] = n /\ i < Len(lines)
    THEN lines[1 + CHOOSE i \in DOMAIN lines : lines[i] = n] ELSE 0
FirstLine == IF lines = <<>> THEN 0 ELSE Head(lines)
(* mutant of NextLine: each run starts at the head of the list *)
NextLineFirst == FirstLine

NextLine == IF written = 0 THEN FirstLine ELSE After(written)

(* the start of do_log_run; the size of the file is checked now and then *)
Begin(r) ==
    /\ pc[r] = "begin"
    /\ inUse' = 3
    /\ due' \in IF NextLine # 0 /\ file = "open" THEN BOOLEAN ELSE {due}
    /\ Set(r, "loop", stack[r], NextLine, 0)
    /\ UNCHANGED <<held, lines, badTail, written, keep, file, made, out, lock, tries, signal,
                   fault, overlap, noOpen, opens, reopens>>

Over(r) == line[r] = 0 \/ loop[r] + 1 >= RunLimit

Counted(r) == IF line[r] = 0 THEN loop[r] ELSE loop[r] + 1

RunOver(r) ==
    /\ pc[r] = "loop" /\ Over(r)
    /\ Set(r, "end", stack[r], 0, Counted(r))
    /\ UNCHANGED <<logVars, made, out, lock, tries, signal, fault, overlap, noOpen, opens,
                   reopens>>

WantsOpen == file = "none" \/ due

(* _log_open succeeds; the line is written with the lock given up *)
PrintStarts(r) ==
    /\ pc[r] = "loop" /\ ~Over(r)
    /\ IF WantsOpen
       THEN /\ file' = "open" /\ due' = FALSE
            /\ fault' = IF file = "open" /\ \E q \in Runner \ {r} : pc[q] = "print"
                        THEN "file" ELSE fault
       ELSE UNCHANGED <<file, due, fault>>
    /\ written' = line[r]
    /\ lock' = "none"
    /\ Set(r, "print", stack[r], line[r], loop[r] + 1)
    /\ UNCHANGED <<held, inUse, lines, badTail, keep, made, out, tries, signal, overlap,
                   noOpen, opens, reopens>>

(* _log_open fails: stderr is tried with a run of its own, once *)
OpenFails(r) ==
    /\ pc[r] = "loop" /\ ~Over(r) /\ WantsOpen
    /\ noOpen' = TRUE
    /\ IF file # "stderr"
       THEN /\ file' = "stderr"
            /\ Set(r, "begin", <<"nested">> \o stack[r], 0, 0)
       ELSE /\ UNCHANGED file
            /\ Set(r, "end", stack[r], 0, loop[r] + 1)
    /\ UNCHANGED <<held, inUse, lines, badTail, written, keep, due, made, out, lock, tries,
                   signal, fault, overlap, opens, reopens>>

(* fprintf is done and the lock taken again *)
PrintEnds(r) ==
    /\ pc[r] = "print" /\ lock = "none"
    /\ lock' = r
    /\ out' = line[r]
    /\ due' \in {due, TRUE}
    /\ fault' = IF line[r] \in Range(lines) THEN fault ELSE "entry"
    /\ Set(r, "loop", stack[r], After(line[r]), loop[r])
    /\ UNCHANGED <<held, inUse, lines, badTail, written, keep, file, made, tries, signal,
                   overlap, noOpen, opens, reopens>>

(* the end of do_log_run: in_use is not 3 when log_close was called, and   *)
(* also after a nested run *)
EndCloses(r) ==
    /\ pc[r] = "end" /\ inUse # 3
    /\ Set(r, "begin", <<"close">> \o stack[r], 0, 0)
    /\ tries' = [tries EXCEPT ![r] = 1]
    /\ UNCHANGED <<logVars, made, out, lock, signal, fault, overlap, noOpen, opens, reopens>>

(* what a call returns to, for the calls s below it: the outer run of a    *)
(* nested one breaks off, a closing log is run again, a commit is over *)
Returns(r, s) ==
    IF s # <<>> /\ Head(s) = "nested" THEN Set(r, "end", Tail(s), 0, 1) /\ UNCHANGED lock
    ELSE IF s # <<>> /\ Head(s) = "close" THEN Set(r, "begin", s, 0, 0) /\ UNCHANGED lock
    ELSE Set(r, "idle", <<>>, 0, 0) /\ lock' = "none"

EndReturns(r) ==
    /\ pc[r] = "end" /\ inUse = 3 /\ Head(stack[r]) # "close"
    /\ inUse' = 1
    /\ Returns(r, stack[r])
    /\ UNCHANGED <<held, lines, badTail, written, keep, file, due, made, out, tries, signal,
                   fault, overlap, noOpen, opens, reopens>>

(* _log_close_internal: another run while there were lines, then the log   *)
(* is freed, but for log_tail *)
CloseAgain(r) ==
    /\ pc[r] = "end" /\ inUse = 3 /\ Head(stack[r]) = "close"
    /\ loop[r] > 0 /\ tries[r] < CloseRuns
    /\ inUse' = 1
    /\ tries' = [tries EXCEPT ![r] = @ + 1]
    /\ Set(r, "begin", stack[r], 0, 0)
    /\ UNCHANGED <<held, lines, badTail, written, keep, file, due, made, out, lock, signal,
                   fault, overlap, noOpen, opens, reopens>>

CloseEnds(r) ==
    /\ pc[r] = "end" /\ inUse = 3 /\ Head(stack[r]) = "close"
    /\ loop[r] = 0 \/ tries[r] = CloseRuns
    /\ inUse' = 0 /\ file' = "none" /\ lines' = <<>> /\ written' = 0
    /\ badTail' = (badTail \/ made > 0)
    /\ fault' = IF file # "none" /\ \E q \in Runner \ {r} : pc[q] = "print"
                THEN "file" ELSE fault
    /\ tries' = [tries EXCEPT ![r] = 0]
    /\ Returns(r, Tail(stack[r]))
    /\ UNCHANGED <<held, keep, due, made, out, signal, overlap, noOpen, opens, reopens>>

(* main opens the error log before anything is logged *)
Init ==
    /\ held = FALSE /\ inUse = 0 /\ lines = <<>> /\ badTail = FALSE /\ written = 0
    /\ keep \in Keeps /\ file = "none" /\ due = FALSE /\ made = 0 /\ out = 0
    /\ lock = "none"
    /\ pc = [r \in Runner |-> "idle"] /\ stack = [r \in Runner |-> <<>>]
    /\ line = [r \in Runner |-> 0] /\ loop = [r \in Runner |-> 0]
    /\ tries = [r \in Runner |-> 0]
    /\ signal = FALSE /\ fault = "no" /\ overlap = FALSE /\ noOpen = FALSE
    /\ opens = 0 /\ reopens = 0

(* nothing is said of what follows a use of freed memory *)
Next ==
    /\ fault = "no"
    /\ \/ Open \/ Write \/ Reload \/ Close \/ Commit
       \/ \E r \in Runner :
            \/ Begin(r) \/ RunOver(r) \/ PrintStarts(r) \/ OpenFails(r) \/ PrintEnds(r)
            \/ EndCloses(r) \/ EndReturns(r) \/ CloseAgain(r) \/ CloseEnds(r)

Spec == Init /\ [][Next]_vars
-----------------------------------------------------------------------------
(* A line is written once, in the order of the log: the line do_log_run    *)
(* writes is the one after the last it wrote, whatever was purged, closed  *)
(* or reopened while the lock was given up.  The exception is a log_close  *)
(* that runs do_log_run at the same time as the log thread.                *)
InOrder == \A r \in Runner : pc[r] = "print" /\ ~overlap => line[r] = out + 1

(* No line leaves the list of an open log before it was written: do_purge  *)
(* keeps to keep_entries only as far as the writer has come.  (A log whose *)
(* file cannot be opened is closed with its lines.)                        *)
NoneLost == held /\ ~noOpen => \A n \in out + 1 .. made : n \in Range(lines)

(* do_purge and log_close leave the line that is being written in place,   *)
(* except when log_close and the log thread run the same log together.     *)
EntrySafe == fault = "entry" => overlap

(* A line is never linked to a freed entry, unless a file could not be     *)
(* opened and the log was closed under its user: log_open starts with an   *)
(* empty list although _log_close_internal leaves log_tail.                *)
TailSafe == fault = "tail" => noOpen

(* A log is written once and in order, no line is dropped before it was written, and no freed *)
(* line is used, while lines are added, trimmed, and the log reopened or closed by others.    *)
LogKept == TypeOK /\ InOrder /\ NoneLost /\ EntrySafe /\ TailSafe
=============================================================================
