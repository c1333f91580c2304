------------------------------- MODULE Spiffs -------------------------------
(***************************************************************************)
(* The SPIFFS partition of one instance: VirtualSpiffs                     *)
(* (core/storage/src/spiffs.rs), created and dropped with the instance's   *)
(* StorageManager by the C calls of core/bridge/src/ffi.rs.  Each call     *)
(* holds the registry STORAGE from beginning to end and is one action.     *)
(*                                                                         *)
(* The files are a directory of the host and outlive the object; the wear  *)
(* counters are in the object.  A file is its size.  A path is a sequence  *)
(* of names with or without a leading slash; Refused stands for the names  *)
(* no file can have (".", "..", empty, more than 32 characters).  Symbolic *)
(* links and faults of the host's file system are left out, and so are     *)
(* read_file and list_dir, which change nothing.                           *)
(***************************************************************************)
EXTENDS Integers, Sequences, FiniteSets, FiniteSetsExt

CONSTANTS
  Names, Refused,   \* names files can have, and names they cannot
  Sizes,            \* bytes of a file
  PartitionSize, BlockSize,
  StartOf,          \* StartOf[name]: the block a name's hash chooses
  MaxSpiffsCalls,   \* bound: calls in one behaviour
  NoSpiffs          \* no object

(* Without sizes the partition cannot be mounted (mount). *)
ASSUME SpiffsAssumption ==
  /\ PartitionSize \in Nat \ {0} /\ BlockSize \in Nat \ {0}
  /\ Sizes \subseteq Nat /\ MaxSpiffsCalls \in Nat /\ IsFiniteSet(Names)

CeilDiv(n, d) == (n + d - 1) \div d
BlockCount == CeilDiv(PartitionSize, BlockSize)
EraseBlocks == 0 .. BlockCount - 1

ASSUME HashAssumption == StartOf \in [Names -> EraseBlocks]

SpiffsObject == [mounted : BOOLEAN, writeCycles : [EraseBlocks -> Nat]]

ASSUME NoneIsNoSpiffs == NoSpiffs \notin SpiffsObject

VARIABLES
  spiffs,         \* the object: mounted, and writeCycles of each block
  contents,       \* contents[name]: bytes of the file on the host, or -1
  writtenHere,    \* history: the files written by this object
  spiffsCalls

spiffsVars == <<spiffs, contents, writtenHere, spiffsCalls>>

Absent == -1
Fresh == [mounted |-> FALSE, writeCycles |-> [b \in EraseBlocks |-> 0]]

SpiffsOff ==
  /\ spiffs = NoSpiffs
  /\ contents = [n \in Names |-> Absent]
  /\ writtenHere = {}
  /\ spiffsCalls = 0

-----------------------------------------------------------------------------
SizeOf(n) == IF contents[n] = Absent THEN 0 ELSE contents[n]
UsedBytes(ns) == MapThenSumSet(SizeOf, ns)

(* info(), while the partition is mounted. *)
FreeBytes == PartitionSize - Min({UsedBytes(Names), PartitionSize})

(* resolve_filename: one leading slash does not count, and a path must be  *)
(* one name.                                                               *)
Resolves(path, n) == path.parts = <<n>> /\ n \notin Refused

(* record_write: a change of so many bytes wears the blocks from the       *)
(* name's own on, around the end of the partition, and at least one.       *)
Stretch(n, bytes) ==
  {(StartOf[n] + offset) % BlockCount :
     offset \in 0 .. CeilDiv(Max({bytes, 1}), BlockSize) - 1}
RecordStart(n, bytes) ==  \* mutant: only the name's own block is worn
  spiffs' = [spiffs EXCEPT !.writeCycles[StartOf[n]] = @ + 1]
RecordWrite(n, bytes) ==
  spiffs' = [spiffs EXCEPT !.writeCycles =
               [b \in EraseBlocks |-> IF b \in Stretch(n, bytes) THEN @[b] + 1 ELSE @[b]]]

(* A write may fill the partition; the file it replaces does not count. *)
FitsPartition(n, size) == UsedBytes(Names \ {n}) + size <= PartitionSize

Counted == spiffsCalls < MaxSpiffsCalls /\ spiffsCalls' = spiffsCalls + 1
Usable == spiffs # NoSpiffs /\ spiffs.mounted

(* mount makes the directory if need be; of an object that is mounted it    *)
(* changes nothing.                                                        *)
Mount(s) == [s EXCEPT !.mounted = TRUE]

(* meshemu_spiffs_init makes the object if there is none, and mounts it. *)
MountSpiffs ==
  /\ Counted
  /\ spiffs' = Mount(IF spiffs = NoSpiffs THEN Fresh ELSE spiffs)
  /\ UNCHANGED <<contents, writtenHere>>

(* meshemu_sdcard_init makes it too, and leaves it unmounted. *)
MountCardOnly ==
  /\ Counted
  /\ spiffs = NoSpiffs
  /\ spiffs' = Fresh
  /\ UNCHANGED <<contents, writtenHere>>

WriteSpiffs(path, size) ==
  /\ Counted
  /\ Usable
  /\ \E n \in Names :
       /\ Resolves(path, n)
       /\ FitsPartition(n, size)
       /\ contents' = [contents EXCEPT ![n] = size]
       /\ RecordWrite(n, Max({SizeOf(n), size}))
       /\ writtenHere' = writtenHere \cup {n}

DeleteSpiffs(path) ==
  /\ Counted
  /\ Usable
  /\ \E n \in Names :
       /\ Resolves(path, n)
       /\ contents[n] # Absent
       /\ contents' = [contents EXCEPT ![n] = Absent]
       /\ RecordWrite(n, contents[n])
  /\ UNCHANGED writtenHere

(* format also mounts, and does not ask whether the partition was mounted. *)
FormatSpiffs ==
  /\ Counted
  /\ spiffs # NoSpiffs
  /\ contents' = [n \in Names |-> Absent]
  /\ spiffs' = Mount(Fresh)
  /\ writtenHere' = {}

UnmountSpiffs ==
  /\ Counted
  /\ spiffs # NoSpiffs
  /\ spiffs' = [spiffs EXCEPT !.mounted = FALSE]
  /\ UNCHANGED <<contents, writtenHere>>

(* meshemu_storage_destroy: the files stay, the counters go. *)
DropSpiffs ==
  /\ Counted
  /\ spiffs # NoSpiffs
  /\ spiffs' = NoSpiffs
  /\ writtenHere' = {}
  /\ UNCHANGED contents

SpiffsPaths ==
  [slash : BOOLEAN, parts : {<<n>> : n \in Names \cup Refused} \cup (Names \X Names)]

SpiffsNext ==
  \/ MountSpiffs \/ MountCardOnly \/ FormatSpiffs \/ UnmountSpiffs \/ DropSpiffs
  \/ \E path \in SpiffsPaths :
       \/ DeleteSpiffs(path)
       \/ \E size \in Sizes : WriteSpiffs(path, size)

SpiffsSpec == SpiffsOff /\ [][SpiffsNext]_spiffsVars

-----------------------------------------------------------------------------
(* What a mounted partition reports as free is what its files leave of it, *)
(* also those of an object that is gone: the cap in info() and the         *)
(* saturating sums never hide an overflow.  And the wear of the blocks     *)
(* knows of every file this object wrote: each block the file lies in was  *)
(* counted, whichever writes, shorter and longer, and removals followed,   *)
(* so no file sits on blocks that seem never to have been erased           *)
(* (spiffs.rs:182 and 295).                                                *)
SpiffsAccounts ==
  Usable =>
    /\ FreeBytes + UsedBytes(Names) = PartitionSize
    /\ \A n \in writtenHere : contents[n] # Absent =>
         \A b \in Stretch(n, contents[n]) : spiffs.writeCycles[b] > 0
=============================================================================
