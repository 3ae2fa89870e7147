------------------------------ MODULE FileStore ------------------------------
(***************************************************************************)
(* What users of the dataflash file system see through vfs.h: named files  *)
(* of bytes.  Calls are made one at a time; a call takes effect when it    *)
(* returns.  A power failure during a call that makes or removes a file    *)
(* leaves the file as it was or as it should be; during a call that        *)
(* changes the contents of a file it may leave that one file with          *)
(* anything in it.  All other files are intact after every power failure.  *)
(* Creating a damaged file anew may find it damaged still.                 *)
(***************************************************************************)
EXTENDS Integers, Sequences

CONSTANTS Names, Bytes, MaxSize,
          Absent,      \* not the contents of any file
          Junk,        \* the contents of a damaged file
          PowerFails   \* TRUE if the power may fail during a call

VARIABLES files, pending

Contents == UNION {[1 .. k -> Bytes] : k \in 0 .. MaxSize} \cup {Junk}
NoCall == [fn |-> "none", name |-> Absent, pos |-> 0, buf |-> <<>>]

Overwrite(old, pos, buf) ==
    SubSeq(old, 1, pos) \o buf \o SubSeq(old, pos + Len(buf) + 1, Len(old))

Set(name, c) == files' = [files EXCEPT ![name] = c]

FSInit ==
    /\ files = [n \in Names |-> Absent]
    /\ pending = NoCall

(* A call names a file, a position up to its end and bytes to put there.   *)
Calls ==
    /\ pending = NoCall
    /\ pending'.name \in Names
    /\ pending'.fn \in {"create", "remove", "write", "truncate"}
    /\ UNCHANGED files

(* What the call in progress makes of its file.  A damaged file is mended  *)
(* by truncating it to nothing.                                            *)
Result ==
    LET old == files[pending.name] IN
    CASE pending.fn = "create"   -> <<>>
      [] pending.fn = "remove"   -> Absent
      [] pending.fn = "write"    -> IF old = Junk THEN Junk ELSE Overwrite(old, pending.pos, pending.buf)
      [] pending.fn = "truncate" -> IF old = Junk THEN <<>> ELSE SubSeq(old, 1, pending.pos)

Returns ==
    /\ pending # NoCall
    /\ \/ Set(pending.name, Result)
       \/ /\ pending.fn = "create" /\ files[pending.name] = Junk
          /\ UNCHANGED files
    /\ pending' = NoCall

PowerFailure ==
    /\ PowerFails
    /\ pending # NoCall
    /\ \/ UNCHANGED files
       \/ Set(pending.name, Result)
       \/ /\ pending.fn # "remove"
          /\ files[pending.name] # Absent
          /\ \E c \in Contents : Set(pending.name, c)
    /\ pending' = NoCall

FSNext == Calls \/ Returns \/ PowerFailure
FSSpec == FSInit /\ [][FSNext]_<<files, pending>>

=============================================================================
