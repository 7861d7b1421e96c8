------------------------------ MODULE AuditFile ------------------------------
(***************************************************************************)
(* The files of the audit trail, LocalAppender of                          *)
(* core/audit/local_appender.go: appending, rotation, failed writes and    *)
(* processes that end in the middle of a line.  AppendBlock runs under     *)
(* a.mu from end to end, so it is one step.                                *)
(*                                                                         *)
(* A file is the blocks of its lines, where 0 is a line that does not      *)
(* parse, and its size in bytes.                                           *)
(***************************************************************************)
EXTENDS Naturals, Sequences, FiniteSets, SequencesExt

CONSTANTS
  MaxBlocks,     \* bound on the calls of AppendBlock
  Limit,         \* RotationLimitBytes
  Sizes,         \* lengths of the encoded blocks
  MaxSecond      \* bound on the clock

ASSUME AuditFileAssumption == {MaxBlocks, Limit, MaxSecond} \cup Sizes \subseteq Nat

VARIABLES
  current,       \* the file at a.filePath
  rotated,       \* the rotated file of each name
  second,        \* the clock that names rotated files
  currentSize,   \* a.currentSize
  appender,      \* "open", "closed" (no process) or "broken"
  calls,         \* calls of AppendBlock so far; the block is the call's number
  acked,         \* history: blocks whose AppendBlock returned nil
  excused        \* history: acknowledged blocks lost in one of the two known ways

auditFileVars == <<current, rotated, second, currentSize, appender, calls, acked, excused>>

EmptyFile == [lines |-> <<>>, size |-> 0]
Held(file) == ToSet(file.lines)
Files == {current} \cup {rotated[s] : s \in 0..MaxSecond}

AuditFileInit ==
  /\ current = EmptyFile /\ rotated = [s \in 0..MaxSecond |-> EmptyFile] /\ second = 0
  /\ currentSize = 0 /\ appender = "closed" /\ calls = 0 /\ acked = {} /\ excused = {}

(* O_TRUNC in place of O_APPEND.                                           *)
Open_TruncateBug ==
  /\ appender = "closed" /\ appender' = "open" /\ current' = EmptyFile /\ currentSize' = 0
  /\ UNCHANGED <<rotated, second, calls, acked, excused>>

(* Open appends to what is there and takes its size.                       *)
Open ==
  /\ appender = "closed" /\ appender' = "open" /\ currentSize' = current.size
  /\ UNCHANGED <<current, rotated, second, calls, acked, excused>>

EndsTorn(file) == file.lines # <<>> /\ Last(file.lines) = 0

(* What follows a torn line without its newline cannot be read back.       *)
Extend(file, block, len) ==
  [lines |-> IF EndsTorn(file) THEN file.lines ELSE Append(file.lines, block), size |-> file.size + len]

(* A write of which one byte arrived.                                      *)
Tear(file) == Extend(file, 0, 1)

Fits(len) == currentSize + len <= Limit

(* A block that fits is appended and flushed.                              *)
AppendBlock(len) ==
  /\ appender = "open" /\ calls < MaxBlocks /\ Fits(len)
  /\ calls' = calls + 1
  /\ current' = Extend(current, calls', len) /\ currentSize' = currentSize + len
  /\ acked' = acked \cup {calls'}
  /\ excused' = IF calls' \in Held(current') THEN excused ELSE excused \cup {calls'}
  /\ UNCHANGED <<rotated, second, appender>>

(* rotatedPath: a name made of the second, or always the same one, ".1",   *)
(* if the limit is 100.                                                    *)
RotatedName == IF Limit = 100 THEN 0 ELSE second

(* rotate moves the file to that name, over any file that has it.          *)
Rotate ==
  /\ rotated' = [rotated EXCEPT ![RotatedName] = current]
  /\ excused' = excused \cup (Held(rotated[RotatedName]) \cap acked)

(* A block that does not fit begins a new file.                            *)
AppendBlockRotated(len) ==
  /\ appender = "open" /\ calls < MaxBlocks /\ ~Fits(len)
  /\ calls' = calls + 1
  /\ Rotate /\ current' = Extend(EmptyFile, calls', len) /\ currentSize' = len
  /\ acked' = acked \cup {calls'}
  /\ UNCHANGED <<second, appender>>

(* A write fails half way, the rename fails and leaves the file closed, or *)
(* the new file cannot be opened or written: the error sticks to the       *)
(* bufio.Writer and every later call fails.                                *)
AppendBlockFails(len) ==
  /\ appender = "open" /\ calls < MaxBlocks
  /\ calls' = calls + 1 /\ appender' = "broken"
  /\ \/ Fits(len) /\ current' \in {current, Tear(current)} /\ UNCHANGED <<rotated, excused>>
     \/ ~Fits(len) /\ UNCHANGED <<current, rotated, excused>>
     \/ ~Fits(len) /\ Rotate /\ current' \in {EmptyFile, Tear(EmptyFile)}
  /\ UNCHANGED <<second, currentSize, acked>>

(* The process ends, after Close or in the middle of a call; one that ends *)
(* while it rotates leaves what a failed rotation leaves.                  *)
ProcessEnds ==
  /\ appender # "closed" /\ appender' = "closed"
  /\ \/ UNCHANGED <<current, calls>>
     \/ /\ calls < MaxBlocks /\ appender = "open" /\ \E len \in Sizes : Fits(len)
        /\ calls' = calls + 1 /\ current' = Tear(current)
  /\ UNCHANGED <<rotated, second, currentSize, acked, excused>>

NextSecond ==
  /\ second < MaxSecond /\ second' = second + 1
  /\ UNCHANGED <<current, rotated, currentSize, appender, calls, acked, excused>>

AuditFileNext ==
  \/ Open \/ ProcessEnds \/ NextSecond
  \/ \E len \in Sizes : AppendBlock(len) \/ AppendBlockRotated(len) \/ AppendBlockFails(len)

AuditFileSpec == AuditFileInit /\ [][AuditFileNext]_auditFileVars

(* A block whose AppendBlock returned nil can be read from one of the      *)
(* files, unless a later rotation to the same name (within one second, or  *)
(* any one if the limit is 100) replaced the file it was in, or it follows *)
(* the torn line that an earlier process left.                             *)
AcknowledgedKept == acked \subseteq excused \cup UNION {Held(file) : file \in Files}

(* Rotation bounds the files, across restarts and failed writes: a file    *)
(* over the limit is a single line, or ends in a torn one.                 *)
FilesBounded ==
  \A file \in Files : file.size > Limit => Len(file.lines) = 1 \/ EndsTorn(file)

(* The trail of LocalAppender: acknowledged blocks stay readable through   *)
(* rotation, failed writes and restarts, and the files stay bounded.       *)
AuditTrailKept == AcknowledgedKept /\ FilesBounded
==============================================================================
