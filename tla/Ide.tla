-------------------------------- MODULE Ide --------------------------------
(***************************************************************************)
(* ide.c: the driver of an IDE disk, polled.  The device (external) works  *)
(* on its own between the polls: it is busy, offers the data of a sector,  *)
(* ends a command well or with an error, or is too slow, in which case the *)
(* driver gives up and the device goes on.  A device that is busy shows    *)
(* neither DRQ nor ERR; one that is given a command drops what it was at.  *)
(***************************************************************************)
EXTENDS Naturals, Integers, Sequences

CONSTANTS
  TIMEOUT,       \* polls of a wait
  COUNTS,        \* range of the sector count register: 256
  LBAS,          \* range of the address registers, 2^28, and size of the disk
  Requests       \* calls of ide_read_sectors: [dev, lba, count]

IdeConstantsOK ==
  /\ TIMEOUT \in Nat \ {0} /\ COUNTS \in Nat \ {0} /\ LBAS \in Nat \ {0}
  /\ Requests \subseteq [dev : {0, 1}, lba : Nat, count : Nat]

VARIABLES
  bsy, rdy, drq, err,   \* external: the bits of the status register
  cmd, left, at,        \* external: the command, its sectors left, the one it is at
  selected, task,       \* written by the driver: DEV; count and address registers
  pc, job, op, i,       \* where the driver is, in which call; polls in this wait
  req, todo, buf, ret,  \* arguments and result of the call; get_data's count and buf
  ide_device_data       \* 0 or -1

device == <<bsy, rdy, drq, err, cmd, left, at>>
vars == <<device, selected, task, pc, job, op, i, req, todo, buf, ret, ide_device_data>>

Startups == <<"features", "params", "idle">>
Op == {"reset", "probe", "identify", "features", "params", "idle", "read"}
Identity == -1           \* what IDENTIFY gives in place of a sector
Garbage == -2            \* words read when the device offers none

TypeOK ==
  /\ {bsy, rdy, drq, err} \subseteq BOOLEAN
  /\ cmd \in Op /\ left \in 0 .. COUNTS /\ at \in 0 .. LBAS + COUNTS
  /\ selected \in {0, 1}
  /\ task \in [count : 0 .. COUNTS - 1, lba : 0 .. LBAS - 1]
  /\ pc \in {"idle", "resetting", "select", "check", "ready", "command", "data", "settle", "end"}
  /\ job \in {"detect", "startup", "read"} /\ op \in Op /\ i \in 0 .. TIMEOUT - 1
  /\ req \in Requests /\ todo \in Nat
  /\ buf \in Seq({Garbage, Identity} \union Nat)
  /\ ret \in {0, -1} /\ ide_device_data \in {0, -1}

----------------------------------------------------------------------------
(* The device *)

\* It comes to the end of what it is busy with.
Works ==
  /\ bsy /\ bsy' = FALSE
  /\ \/ left = 0 /\ err' \in BOOLEAN /\ UNCHANGED <<drq, left>>
     \/ left > 0 /\ at < LBAS /\ drq' = TRUE /\ UNCHANGED <<err, left>>
     \/ left > 0 /\ err' = TRUE /\ left' = 0 /\ UNCHANGED drq
  /\ UNCHANGED <<rdy, cmd, at, selected, task, pc, job, op, i, req, todo, buf, ret, ide_device_data>>

BecomesReady ==
  /\ ~bsy /\ ~rdy /\ rdy' = TRUE
  /\ UNCHANGED <<bsy, drq, err, cmd, left, at>>
  /\ UNCHANGED <<selected, task, pc, job, op, i, req, todo, buf, ret, ide_device_data>>

\* A command or a reset is written: it starts, with n sectors from l on.
Starts(c, n, l) ==
  /\ bsy' = TRUE /\ drq' = FALSE /\ err' = FALSE
  /\ cmd' = c /\ left' = n /\ at' = l

\* The words of a sector are read; without DRQ there are none.
Offered == IF ~drq THEN Garbage ELSE IF cmd = "identify" THEN Identity ELSE at

Taken ==
  IF drq THEN /\ bsy' = TRUE /\ drq' = FALSE /\ left' = left - 1 /\ at' = at + 1
              /\ UNCHANGED <<rdy, err, cmd>>
  ELSE UNCHANGED device

----------------------------------------------------------------------------
(* The waits and the calls *)

\* A poll that sees nothing; a mutant counts none.
PollsOn == pc' = pc /\ i' = i
PollAgain == pc' = pc /\ i' = i + 1
LastPoll == i = TIMEOUT - 1

GoTo(p) == pc' = p /\ i' = 0

Return(r) == GoTo("idle") /\ ret' = r /\ UNCHANGED op

\* ide_startup_devices goes on to its next command, whatever came of the last.
NextStartup ==
  IF op = "idle" THEN Return(0)
  ELSE /\ op' = IF op = "features" THEN "params" ELSE "idle"
       /\ GoTo("select") /\ UNCHANGED ret

\* A command fails.
Fail == IF job = "startup" THEN NextStartup ELSE Return(-1)

ide_detect_devices ==
  /\ pc = "idle" /\ job' = "detect" /\ op' = "reset" /\ GoTo("resetting")
  /\ ide_device_data' = -1
  /\ Starts("reset", 0, 0) /\ rdy' = FALSE
  /\ UNCHANGED <<selected, task, req, todo, buf, ret>>

\* The monitor calls it after ide_detect_devices has returned 0.
ide_startup_devices ==
  /\ pc = "idle" /\ job = "detect" /\ ret = 0 /\ job' = "startup"
  /\ IF ide_device_data = 0 THEN op' = "features" /\ GoTo("select") ELSE UNCHANGED <<op, pc, i>>
  /\ UNCHANGED <<device, selected, task, req, todo, buf, ret, ide_device_data>>

\* A BIOS call, which looks neither at ide_detected nor at ide_started.
ide_read_sectors ==
  /\ pc = "idle" /\ job' = "read" /\ op' = "read" /\ GoTo("select")
  /\ req' \in Requests /\ buf' = <<>>
  /\ UNCHANGED <<device, selected, task, todo, ret, ide_device_data>>

----------------------------------------------------------------------------
(* The steps of the calls *)

\* ide_reset waits.  With ERR set the error register holds the diagnostic code, of
\* which 1 means that all is well.
ide_reset ==
  /\ pc = "resetting"
  /\ \/ /\ bsy
        /\ IF LastPoll THEN Return(-1) ELSE PollAgain /\ UNCHANGED <<op, ret>>
     \/ ~bsy /\ err /\ Return(-1)
     \/ ~bsy /\ GoTo("select") /\ op' = "probe" /\ UNCHANGED ret
  /\ UNCHANGED <<device, selected, task, job, req, todo, buf, ide_device_data>>

\* ide_device_selection; only a BIOS call asks for another device than 0.
Selected ==
  /\ selected' = IF job = "read" THEN req.dev ELSE 0
  /\ GoTo(CASE op = "probe" -> "check" [] op = "read" -> "command" [] OTHER -> "ready")
  /\ UNCHANGED <<op, ret>>

\* A mutant takes the end of the wait for its success.
SelectAnyway ==
  /\ pc = "select"
  /\ IF bsy /\ ~LastPoll THEN PollAgain /\ UNCHANGED <<selected, op, ret>> ELSE Selected
  /\ UNCHANGED <<device, task, job, req, todo, buf, ide_device_data>>

ide_device_selection ==
  /\ pc = "select"
  /\ IF ~bsy THEN Selected
     ELSE /\ UNCHANGED selected
          /\ IF LastPoll THEN Fail ELSE PollAgain /\ UNCHANGED <<op, ret>>
  /\ UNCHANGED <<device, task, job, req, todo, buf, ide_device_data>>

\* Two bytes of the address are written and read back.
ide_register_check ==
  /\ pc = "check"
  /\ \E l \in 0 .. LBAS - 1 : task' = [task EXCEPT !.lba = l]
  /\ \/ GoTo("select") /\ op' = "identify" /\ UNCHANGED ret
     \/ Return(-1)
  /\ UNCHANGED <<device, selected, job, req, todo, buf, ide_device_data>>

\* What wait_ready returns is not looked at.
wait_ready ==
  /\ pc = "ready"
  /\ IF rdy \/ LastPoll THEN GoTo("command") ELSE PollAgain
  /\ UNCHANGED <<device, selected, task, job, op, req, todo, buf, ret, ide_device_data>>

\* The count register is a byte, the address has 28 bits; 0 asks for the most.
Count(n) == n % COUNTS

\* The registers of the command are written, with no bit for the device.
Read ==
  LET n == Count(req.count)
      l == req.lba % LBAS
  IN /\ op = "read" /\ selected' = 0
     /\ task' = [count |-> n, lba |-> l]
     /\ Starts(op, IF n = 0 THEN COUNTS ELSE n, l)
     /\ todo' = req.count /\ GoTo("data")

Identify ==
  /\ op = "identify" /\ Starts(op, 1, 0)
  /\ todo' = 1 /\ buf' = <<>> /\ GoTo("data")
  /\ UNCHANGED <<selected, task>>

Configure ==
  /\ op \in {"features", "params", "idle"} /\ Starts(op, 0, 0) /\ GoTo("end")
  /\ \E n \in 0 .. COUNTS - 1 :
       /\ op # "params" => n = 0
       /\ task' = [task EXCEPT !.count = n]
  /\ UNCHANGED <<selected, todo, buf>>

Command ==
  /\ pc = "command"
  /\ \/ Read /\ UNCHANGED buf
     \/ Identify
     \/ Configure
  /\ UNCHANGED <<rdy, job, op, req, ret, ide_device_data>>

\* ide_get_data, at a sector: what ends the wait.  A mutant waits for BSY only.
SeesFree == ~bsy
Sees == drq \/ err

DataEnds ==
  /\ pc = "data" /\ todo = 0
  /\ \/ op = "read" /\ Return(0) /\ UNCHANGED ide_device_data
     \/ op = "identify" /\ Return(0) /\ ide_device_data' = 0
     \/ op = "identify" /\ Return(-1) /\ UNCHANGED ide_device_data    \* incomplete
  /\ UNCHANGED <<device, selected, task, job, req, todo, buf>>

DataComes ==
  /\ pc = "data" /\ todo > 0 /\ Sees /\ ~err
  /\ buf' = Append(buf, Offered) /\ todo' = todo - 1 /\ Taken
  /\ GoTo("settle")
  /\ UNCHANGED <<selected, task, job, op, req, ret, ide_device_data>>

DataFails ==
  /\ pc = "data" /\ todo > 0
  /\ IF Sees THEN err /\ Return(-1)
     ELSE IF LastPoll THEN Return(-1)
     ELSE PollAgain /\ UNCHANGED <<op, ret>>
  /\ UNCHANGED <<device, selected, task, job, req, todo, buf, ide_device_data>>

\* After a sector: RDY and DSC and nothing else, or the end of the wait.
Settle ==
  /\ pc = "settle"
  /\ IF (rdy /\ ~bsy /\ ~drq /\ ~err) \/ LastPoll THEN GoTo("data") ELSE PollAgain
  /\ UNCHANGED <<device, selected, task, job, op, req, todo, buf, ret, ide_device_data>>

\* The end of ide_set_transfer_mode, ide_set_device_params and ide_idle.
CommandEnds ==
  /\ pc = "end"
  /\ IF ~bsy \/ LastPoll THEN NextStartup ELSE PollAgain /\ UNCHANGED <<op, ret>>
  /\ UNCHANGED <<device, selected, task, job, req, todo, buf, ide_device_data>>

Driver ==
  \/ ide_reset \/ ide_device_selection \/ ide_register_check \/ wait_ready \/ Command
  \/ DataEnds \/ DataComes \/ DataFails \/ Settle \/ CommandEnds

Next ==
  \/ Works \/ BecomesReady
  \/ ide_detect_devices \/ ide_startup_devices \/ ide_read_sectors
  \/ Driver

Init ==
  /\ bsy \in BOOLEAN /\ rdy = FALSE /\ drq = FALSE /\ err = FALSE
  /\ cmd = "reset" /\ left = 0 /\ at = 0
  /\ selected = 0 /\ task = [count |-> 0, lba |-> 0]
  /\ pc = "idle" /\ job = "read" /\ op = "read" /\ i = 0
  /\ req \in Requests /\ todo = 0 /\ buf = <<>> /\ ret = -1
  /\ ide_device_data = 0

----------------------------------------------------------------------------
(* Properties *)

\* What ide_read_sectors can ask for: it writes neither the bit for device 1 nor
\* more than 28 bits of the address (ide.c:557-560), and reads something else then.
Addressed(r) == r.dev = 0 /\ r.lba < LBAS

\* When ide_read_sectors returns 0, buf holds the sectors asked for, each once
\* and in order and all of them on the disk, whatever earlier calls left the device
\* at; and, for a count from 1 to 256, the device has no data left to give to the
\* next call, whatever was asked for.
SectorsExact ==
  pc = "idle" /\ job = "read" /\ ret = 0 =>
    /\ Addressed(req) => /\ buf = [k \in 1 .. req.count |-> req.lba + k - 1]
                         /\ req.lba + req.count <= LBAS
    /\ req.count \in 1 .. COUNTS => left = 0 /\ ~drq

\* The registers and the command are written to a device that is not busy,
\* though no write looks at BSY itself.
TaskFileFree == pc \in {"check", "ready", "command"} => ~bsy

Busy == pc # "idle"
=============================================================================
