------------------------------ MODULE BlockDisk ------------------------------
(***************************************************************************)
(* What a block device promises the IDE drive that owns it: the contract   *)
(* of the read_async / write_async / flush hooks of struct BlockDevice     *)
(* (ide.c), stated over one register per sector.                           *)
(*                                                                         *)
(* disk is the contents as the guest knows them: every write that was      *)
(* answered with success has happened, in order.  media is the image       *)
(* behind the device; a write may reach it at any time after its call, but *)
(* a flush answered with success means that nothing is still on its way.   *)
(***************************************************************************)
EXTENDS BlockCalls

VARIABLES
  disk,    \* contents every successful answer so far is consistent with
  media,   \* contents of the image behind the device
  call,    \* the call being served
  reply    \* its answer, until the next call

vars == <<disk, media, call, reply>>

TypeOK ==
  /\ disk \in [Sector -> Stamp]
  /\ media \in [Sector -> Stamp]
  /\ call \in Call
  /\ reply \in Reply

Init ==
  /\ disk = [s \in Sector |-> 0]
  /\ media = [s \in Sector |-> 0]
  /\ call = NoCall
  /\ reply = NoReply

\* The drive calls one of the hooks.
Begin ==
  /\ call = NoCall
  /\ call' \in {c \in Call : c.op # "none"}
  /\ reply' = NoReply
  /\ UNCHANGED <<disk, media>>

\* Sectors reach the image: each with contents no older than what the image
\* holds and no newer than the latest, or with what the write in progress brings.
Commit ==
  /\ media' \in [Sector -> Stamp]
  /\ \A s \in Sector :
       \/ media'[s] \in {media[s]} \cup media[s] .. disk[s]
       \/ call.op = "write" /\ s \in Span(call) /\ media'[s] = call.stamp
  /\ UNCHANGED <<disk, call, reply>>

\* The call is answered.
Answer(rc, data) ==
  /\ reply' = [op |-> call.op, rc |-> rc, data |-> data]
  /\ call' = NoCall
  /\ UNCHANGED media

ReadOK ==
  /\ call.op = "read"
  /\ Span(call) \subseteq Sector
  /\ Answer(0, [s \in Sector |-> IF s \in Span(call) THEN disk[s] ELSE Nil])
  /\ UNCHANGED disk

WriteOK ==
  /\ call.op = "write"
  /\ Span(call) \subseteq Sector
  /\ Answer(0, NoData)
  /\ disk' = [s \in Sector |-> IF s \in Span(call) THEN call.stamp ELSE disk[s]]

FlushOK ==
  /\ call.op = "flush"
  /\ media = disk
  /\ Answer(0, NoData)
  /\ UNCHANGED disk

\* A failed call: a failed write leaves each of its sectors old or new.
Fail ==
  /\ call.op # "none"
  /\ Answer(-1, NoData)
  /\ disk' \in [Sector -> Stamp]
  /\ \A s \in Sector :
       \/ disk'[s] = disk[s]
       \/ call.op = "write" /\ s \in Span(call) /\ disk'[s] = call.stamp

Next == Begin \/ Commit \/ ReadOK \/ WriteOK \/ FlushOK \/ Fail

Spec == Init /\ [][Next]_vars
==============================================================================
