------------------------------- MODULE Storage -------------------------------
(***************************************************************************)
(* Where sectors are read from and images are written to: the IDE disk     *)
(* (ide.c, in the monitor) and the flash ROM (tools/cqsh4-flash/flash.c, a *)
(* program of its own).  Both poll a device that works on its own and must *)
(* tell what came of it; each is looked at on its own.                     *)
(***************************************************************************)
EXTENDS Integers, Sequences

CONSTANTS
  TIMEOUT, COUNTS, LBAS, Requests,      \* of Ide
  Size, Images, MaxRestarts             \* of Flash

VARIABLES
  device,
  pc, job,                              \* of both
  bsy, rdy, drq, err, cmd, left, at, selected, task, op, i, req, todo, buf, ret,
  ide_device_data,
  words, mode, toggle, target, writes, offset, status0, result, image, restarts

diskVars == <<bsy, rdy, drq, err, cmd, left, at, selected, task, op, i, req, todo, buf, ret,
              ide_device_data>>
flashVars == <<words, mode, toggle, target, writes, offset, status0, result, image, restarts>>
vars == <<device, pc, job, diskVars, flashVars>>

Disk == INSTANCE Ide
Rom == INSTANCE Flash

ASSUME StorageConstantsOK == Disk!IdeConstantsOK /\ Rom!FlashConstantsOK

\* What belongs to the other device is not there.
Absent == "none"

NoDisk ==
  /\ bsy = Absent /\ rdy = Absent /\ drq = Absent /\ err = Absent /\ cmd = Absent
  /\ left = Absent /\ at = Absent /\ selected = Absent /\ task = Absent /\ op = Absent
  /\ i = Absent /\ req = Absent /\ todo = Absent /\ buf = Absent /\ ret = Absent
  /\ ide_device_data = Absent

NoFlash ==
  /\ words = Absent /\ mode = Absent /\ toggle = Absent /\ target = Absent /\ writes = Absent
  /\ offset = Absent /\ status0 = Absent /\ result = Absent /\ image = Absent /\ restarts = Absent

Init ==
  \/ device = "disk" /\ Disk!Init /\ NoFlash
  \/ device = "flash" /\ Rom!Init /\ NoDisk

OnlyDisk == device = "disk" /\ UNCHANGED <<device, flashVars>>
OnlyFlash == device = "flash" /\ UNCHANGED <<device, diskVars>>

Next ==
  \/ OnlyDisk /\ Disk!Next
  \/ OnlyFlash /\ Rom!Next

Spec == Init /\ [][Next]_vars

\* The processor runs.  The disk need do nothing; the flash chip finishes what it is at.
Code ==
  \/ OnlyDisk /\ Disk!Driver
  \/ OnlyFlash /\ Rom!Program

FairSpec == Spec /\ WF_vars(Code) /\ WF_vars(OnlyFlash /\ Rom!Chip)

----------------------------------------------------------------------------
(* Properties *)

TypeOK ==
  /\ device = "disk" => Disk!TypeOK
  /\ device = "flash" => Rom!TypeOK

\* What is returned as read is what was asked for, if the registers can ask for it, and
\* what is told to be written has been.
DataExact ==
  /\ device = "disk" => Disk!SectorsExact
  /\ device = "flash" => Rom!FlashExact

\* A disk's registers are written while it is not busy.
TaskFileFree == device = "disk" => Disk!TaskFileFree

\* "Don't loop forever" (ide.c:246): every call of the IDE driver returns, even if the disk
\* does nothing; the flash writer ends, because the chip works or gives up.
Busy == (device = "disk" /\ Disk!Busy) \/ (device = "flash" /\ Rom!Busy)
CallsEnd == Busy ~> ~Busy
=============================================================================
