------------------------------ MODULE Versions ------------------------------
(***************************************************************************)
(* The VersionManager of tx/src/version_manager.rs as operators on a       *)
(* record that has the fields of the struct.  A video is cut into slots    *)
(* and encoded in several versions; every slot of every version is a trace *)
(* file, of which only the number of frames is kept.  Vectors are indexed  *)
(* from 1 here and from 0 in the code.                                     *)
(***************************************************************************)
EXTENDS Naturals, Sequences

CONSTANTS
  bitrates_bps,      \* cfg.bitrates_bps
  versions,          \* cfg.versions
  slots,             \* cfg.slots
  initial_version,   \* the version a manager begins with (10)
  Missing,           \* the content of a file that cannot be read
  None               \* Option::None

\* A file is its number of frames; VersionManager::new indexes bitrates_bps.
ASSUME ConfigAssumption ==
  /\ bitrates_bps \in Seq(Nat)
  /\ versions \in Seq([bitrate_bps : Nat, files : Seq(Nat \cup {Missing})])
  /\ slots \in Nat
  /\ initial_version \in Nat /\ initial_version < Len(bitrates_bps)
  /\ Missing \notin Nat

\* The slots a manager can be in: 0 even if there are none.
Slot == {slot \in Nat : slot = 0 \/ slot < slots}

VersionManager ==
  [current_version : Nat, actual_bitrate : Nat, current_bitrate : Nat,
   current_slot : Slot]

VersionManager_new ==
  [current_version |-> initial_version,
   actual_bitrate |-> bitrates_bps[initial_version + 1],
   current_bitrate |-> bitrates_bps[initial_version + 1],
   current_slot |-> 0]

\* A mutant of Following: the comparison comes before the increment.
Following_Late(slot) == IF slot >= slots THEN 0 ELSE slot + 1

\* The slot after this one.
Following(slot) == IF slot + 1 >= slots THEN 0 ELSE slot + 1

\* next() indexes the bitrates, the versions and the files of the version.
NextPanics(vm) ==
  \/ vm.current_version >= Len(bitrates_bps)
  \/ vm.current_version >= Len(versions)
  \/ vm.current_slot >= Len(versions[vm.current_version + 1].files)

\* The trace that next() names: a slot of the current version.
NextTrace(vm) == [version |-> vm.current_version, slot |-> vm.current_slot]

next(vm) ==
  [vm EXCEPT !.current_slot = Following(@),
             !.actual_bitrate = bitrates_bps[vm.current_version + 1]]

Content(trace) == versions[trace.version + 1].files[trace.slot + 1]

\* Mutants of set_version: the bitrate in use is changed as well; the
\* version is not; any version is taken.
set_version_ActualBitrate(vm, version_index) ==
  IF version_index < Len(versions)
  THEN [vm EXCEPT !.current_version = version_index,
                  !.actual_bitrate = versions[version_index + 1].bitrate_bps]
  ELSE vm

set_version_BitrateOnly(vm, version_index) ==
  IF version_index < Len(versions)
  THEN [vm EXCEPT !.current_bitrate = versions[version_index + 1].bitrate_bps]
  ELSE vm

set_version_Unchecked(vm, version_index) ==
  [vm EXCEPT !.current_version = version_index]

\* A version that does not exist is ignored.
set_version(vm, version_index) ==
  IF version_index < Len(versions)
  THEN [vm EXCEPT !.current_version = version_index,
                  !.current_bitrate = versions[version_index + 1].bitrate_bps]
  ELSE vm
=============================================================================
