----------------------------- MODULE BlockCalls ------------------------------
(***************************************************************************)
(* The calls the IDE drive makes on its block device and their answers:    *)
(* the read_async / write_async / flush hooks of struct BlockDevice        *)
(* (ide.c).  Every hook returns before the drive goes on, so one call is   *)
(* in progress at a time.                                                  *)
(*                                                                         *)
(* A sector's contents are the stamp (serial number) of the write call     *)
(* that wrote it; 0 stands for what the image held at start.               *)
(***************************************************************************)
EXTENDS Integers

CONSTANTS
  NbSectors,   \* sectors of the device
  MaxStamp     \* bound: number of write calls in a behaviour

ASSUME BlockCallsAssumption ==
  /\ NbSectors \in Nat \ {0}
  /\ MaxStamp \in Nat

Sector == 0 .. NbSectors - 1
Stamp  == 0 .. MaxStamp
Nil    == -1   \* no contents

Ops == {"read", "write", "flush"}

\* A call; first and n count for reads and writes, stamp only for a write.
Call == [op : Ops \cup {"none"}, first : 0 .. NbSectors, n : 0 .. NbSectors,
         stamp : Stamp]

NoCall == [op |-> "none", first |-> 0, n |-> 0, stamp |-> 0]

\* The sectors a call is about.
Span(c) == c.first .. c.first + c.n - 1

\* An answer: the hook's return value, and the sectors a read delivered.
NoData  == [s \in Sector |-> Nil]
Reply   == [op : Ops \cup {"none"}, rc : {0, -1}, data : [Sector -> Stamp \cup {Nil}]]
NoReply == [op |-> "none", rc |-> 0, data |-> NoData]
==============================================================================
