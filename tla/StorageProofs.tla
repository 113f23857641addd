---------------------------- MODULE StorageProofs ----------------------------
(***************************************************************************)
(* Proofs about Storage: for a disk of any size that answers as late as it *)
(* likes, and for an image of any length.                                  *)
(***************************************************************************)
EXTENDS Storage, TLAPS, SequenceTheorems

----------------------------------------------------------------------------
(* The disk: when its registers are written *)

LEMMA StillFree ==
  ASSUME Disk!TaskFileFree, Disk!Next
  PROVE  Disk!TaskFileFree'
<1> USE DEF Disk!TaskFileFree
<1>1. CASE Disk!Works \/ Disk!BecomesReady
  BY <1>1 DEF Disk!Works, Disk!BecomesReady
<1>2. CASE Disk!ide_detect_devices \/ Disk!ide_startup_devices \/ Disk!ide_read_sectors
  BY <1>2 DEF Disk!ide_detect_devices, Disk!ide_startup_devices, Disk!ide_read_sectors, Disk!GoTo,
     Disk!Starts
<1>3. CASE Disk!ide_device_selection
  BY <1>3 DEF Disk!ide_device_selection, Disk!Selected, Disk!Fail, Disk!NextStartup, Disk!Return,
     Disk!PollAgain, Disk!GoTo, Disk!device
<1>4. CASE Disk!ide_reset \/ Disk!ide_register_check \/ Disk!wait_ready \/ Disk!DataEnds
           \/ Disk!DataFails \/ Disk!Settle \/ Disk!CommandEnds
  BY <1>4 DEF Disk!ide_reset, Disk!ide_register_check, Disk!wait_ready, Disk!DataEnds,
     Disk!DataFails, Disk!Settle, Disk!CommandEnds, Disk!NextStartup, Disk!Return,
     Disk!PollAgain, Disk!GoTo, Disk!device
<1>5. CASE Disk!Command \/ Disk!DataComes
  BY <1>5 DEF Disk!Command, Disk!DataComes, Disk!Read, Disk!Identify, Disk!Configure, Disk!GoTo
<1> QED
  BY <1>1, <1>2, <1>3, <1>4, <1>5 DEF Disk!Next, Disk!Driver

\* The address, the count and the command are written to a disk that is not busy: since
\* the selection of the device has seen BSY clear nothing has started, though none of the
\* writes looks at BSY.
THEOREM RegistersFree == Spec => []TaskFileFree
<1>1. Init => TaskFileFree
  BY DEF Init, Disk!Init, Rom!Init, TaskFileFree, Disk!TaskFileFree
<1>2. TaskFileFree /\ [Next]_vars => TaskFileFree'
  <2>1. CASE OnlyDisk /\ Disk!Next
    BY <2>1, StillFree DEF TaskFileFree, OnlyDisk
  <2>2. CASE OnlyFlash /\ Rom!Next
    BY <2>2 DEF TaskFileFree, OnlyFlash
  <2>3. CASE UNCHANGED vars
    BY <2>3 DEF vars, diskVars, TaskFileFree, Disk!TaskFileFree
  <2> QED
    BY <2>1, <2>2, <2>3 DEF Next
<1> QED
  BY <1>1, <1>2, PTL DEF Spec

----------------------------------------------------------------------------
(* The disk: what is read *)

\* A busy disk shows neither DRQ nor ERR, and DRQ goes with a sector that is left and
\* on the disk.
Shows ==
  /\ {bsy, rdy, drq, err} \subseteq BOOLEAN /\ left \in Nat /\ at \in Nat
  /\ bsy => ~drq /\ ~err
  /\ drq => left > 0 /\ ~err /\ at < LBAS

\* Which command a step of the driver belongs to.
Commanded ==
  /\ pc = "resetting" => op = "reset"
  /\ pc = "check" => op = "probe"
  /\ pc = "end" => op \in {"features", "params", "idle"}
  /\ job = "read" => op = "read"

FirstLba == req.lba % LBAS
ToRead == IF Disk!Count(req.count) = 0 THEN COUNTS ELSE Disk!Count(req.count)

\* A read so far: the sectors in buf are those that the disk has been taken past.
ReadSoFar ==
  /\ req \in Requests /\ todo \in Nat
  /\ job = "read" /\ pc \in {"select", "check", "ready", "command"} => buf = <<>>
  /\ job = "read" /\ pc \in {"data", "settle"} =>
       /\ cmd = "read" /\ todo <= req.count
       /\ buf = [k \in 1 .. req.count - todo |-> FirstLba + k - 1]
       /\ at = FirstLba + (req.count - todo) /\ at <= LBAS
       /\ IF err THEN left = 0 ELSE left = ToRead - (req.count - todo)

Reading == Shows /\ Commanded /\ ReadSoFar /\ Disk!SectorsExact

LEMMA Addresses ==
  ASSUME req \in Requests
  PROVE  /\ req.count \in Nat /\ FirstLba \in Nat /\ ToRead \in Nat \ {0}
         /\ LBAS \in Nat /\ FirstLba <= LBAS /\ (req.lba < LBAS => FirstLba = req.lba)
         /\ req.count \in 1 .. COUNTS => ToRead = req.count
<1>1. /\ COUNTS \in Nat \ {0} /\ LBAS \in Nat \ {0}
      /\ req.count \in Nat /\ req.lba \in Nat
  BY StorageConstantsOK DEF Disk!IdeConstantsOK
<1>2. /\ FirstLba \in Nat /\ req.count % COUNTS \in Nat
      /\ FirstLba <= LBAS /\ (req.lba < LBAS => FirstLba = req.lba)
  BY <1>1 DEF FirstLba
<1>3. req.count \in 1 .. COUNTS =>
        req.count % COUNTS = IF req.count = COUNTS THEN 0 ELSE req.count
  BY <1>1
<1> QED
  BY <1>1, <1>2, <1>3 DEF ToRead, Disk!Count

\* What the disk does on its own.
LEMMA DiskReading ==
  ASSUME Reading, Disk!Works \/ Disk!BecomesReady
  PROVE  Reading'
<1>1. UNCHANGED <<cmd, at, pc, job, op, req, todo, buf, ret>>
  BY DEF Disk!Works, Disk!BecomesReady
<1>2. Shows'
  <2>1. CASE Disk!Works
    <3>1. /\ bsy = TRUE /\ drq = FALSE /\ err = FALSE /\ rdy \in BOOLEAN
          /\ left \in Nat /\ at \in Nat
      BY <2>1 DEF Disk!Works, Reading, Shows
    <3>2. UNCHANGED <<rdy, at>> /\ bsy' = FALSE
      BY <2>1 DEF Disk!Works
    <3>3. \/ err' \in BOOLEAN /\ drq' = FALSE /\ left' = left
          \/ err' = FALSE /\ drq' = TRUE /\ left' = left /\ left > 0 /\ at < LBAS
          \/ err' = TRUE /\ drq' = FALSE /\ left' = 0
      BY <2>1, <3>1 DEF Disk!Works
    <3>4. {bsy', rdy', drq', err'} \subseteq BOOLEAN
      BY <3>1, <3>2, <3>3, Zenon
    <3> QED
      BY <3>1, <3>2, <3>3, <3>4 DEF Shows
  <2>2. CASE Disk!BecomesReady
    BY <2>2 DEF Disk!BecomesReady, Reading, Shows
  <2> QED
    BY <2>1, <2>2
<1>3. Commanded' /\ (UNCHANGED <<left, err>> \/ (err' /\ left' = 0))
  <2>1. Commanded'
    BY <1>1 DEF Reading, Commanded
  <2>2. CASE Disk!Works
    <3>1. bsy = TRUE /\ err = FALSE
      BY <2>2 DEF Disk!Works, Reading, Shows
    <3> QED
      BY <2>1, <2>2, <3>1 DEF Disk!Works
  <2>3. CASE Disk!BecomesReady
    BY <2>1, <2>3 DEF Disk!BecomesReady
  <2> QED
    BY <2>2, <2>3
<1>4. ReadSoFar'
  BY <1>1, <1>3 DEF Reading, ReadSoFar, FirstLba, ToRead, Disk!Count
<1>5. Disk!SectorsExact'
  <2>1. left = 0 /\ ~drq => left' = 0 /\ ~drq'
    BY DEF Disk!Works, Disk!BecomesReady, Reading, Shows
  <2> QED
    BY <1>1, <2>1 DEF Reading, Disk!SectorsExact
<1> QED
  BY <1>2, <1>3, <1>4, <1>5 DEF Reading

\* A call, and the steps in which no sector is read.
LEMMA CallReading ==
  ASSUME Reading,
         \/ Disk!ide_detect_devices \/ Disk!ide_startup_devices \/ Disk!ide_read_sectors
         \/ Disk!ide_reset \/ Disk!ide_device_selection \/ Disk!ide_register_check
         \/ Disk!wait_ready \/ Disk!DataFails \/ Disk!Settle \/ Disk!CommandEnds
  PROVE  Reading'
<1>1. CASE Disk!ide_detect_devices
  BY <1>1 DEF Disk!ide_detect_devices, Disk!Starts, Disk!GoTo, Reading, Shows, Commanded,
     ReadSoFar, Disk!SectorsExact
<1>2. CASE Disk!ide_startup_devices
  BY <1>2 DEF Disk!ide_startup_devices, Disk!GoTo, Disk!device, Reading, Shows, Commanded,
     ReadSoFar, Disk!SectorsExact
<1>3. CASE Disk!ide_read_sectors
  BY <1>3 DEF Disk!ide_read_sectors, Disk!GoTo, Disk!device, Reading, Shows, Commanded,
     ReadSoFar, Disk!SectorsExact
<1>4. CASE Disk!ide_reset \/ Disk!ide_register_check
  BY <1>4 DEF Disk!ide_reset, Disk!ide_register_check, Disk!GoTo, Disk!device, Disk!Return,
     Disk!PollAgain, Reading, Shows, Commanded, ReadSoFar, Disk!SectorsExact
<1>5. CASE Disk!ide_device_selection
  BY <1>5 DEF Disk!ide_device_selection, Disk!Selected, Disk!Fail, Disk!NextStartup, Disk!GoTo,
     Disk!device, Disk!Return, Disk!PollAgain, Reading, Shows, Commanded, ReadSoFar,
     Disk!SectorsExact
<1>6. CASE Disk!wait_ready
  BY <1>6 DEF Disk!wait_ready, Disk!GoTo, Disk!device, Disk!PollAgain, Reading, Shows, Commanded,
     ReadSoFar, Disk!SectorsExact
<1>7. CASE Disk!DataFails \/ Disk!Settle
  <2>1. /\ UNCHANGED <<bsy, rdy, drq, err, cmd, left, at, req, todo, buf, op, job>>
        /\ pc \in {"data", "settle"}
        /\ \/ pc' \in {"data", "settle"}
           \/ pc' = "idle" /\ ret' = -1
    BY <1>7 DEF Disk!DataFails, Disk!Settle, Disk!GoTo, Disk!device, Disk!Return, Disk!PollAgain
  <2>2. Shows' /\ Commanded'
    BY <2>1 DEF Reading, Shows, Commanded
  <2>3. ReadSoFar'
    BY <2>1 DEF Reading, ReadSoFar, FirstLba, ToRead, Disk!Count
  <2> QED
    BY <2>1, <2>2, <2>3 DEF Reading, Disk!SectorsExact
<1>8. CASE Disk!CommandEnds
  <2>1. /\ UNCHANGED <<bsy, rdy, drq, err, cmd, left, at, req, todo, buf, job>>
        /\ pc = "end" /\ op \in {"features", "params", "idle"} /\ job # "read"
        /\ pc' \in {"end", "select", "idle"} /\ op' \in {"features", "params", "idle"}
    BY <1>8 DEF Disk!CommandEnds, Disk!NextStartup, Disk!GoTo, Disk!device, Disk!Return,
       Disk!PollAgain, Reading, Commanded
  <2> QED
    BY <2>1 DEF Reading, Shows, Commanded, ReadSoFar, Disk!SectorsExact
<1> QED
  BY <1>1, <1>2, <1>3, <1>4, <1>5, <1>6, <1>7, <1>8

\* A command is written: the disk is set to the sectors that are to be read.
LEMMA CommandReading ==
  ASSUME Reading, Disk!Command
  PROVE  Reading'
<1>1. /\ pc = "command" /\ UNCHANGED <<rdy, job, op, req, ret>>
      /\ bsy' = TRUE /\ drq' = FALSE /\ err' = FALSE
  BY DEF Disk!Command, Disk!Read, Disk!Identify, Disk!Configure, Disk!Starts
<1>2. {bsy', rdy', drq', err'} \subseteq BOOLEAN
  BY <1>1 DEF Reading, Shows
<1>3. CASE op = "read"
  <2>1. /\ pc' = "data" /\ cmd' = "read" /\ left' = ToRead /\ at' = FirstLba
        /\ todo' = req.count /\ buf' = buf
    BY <1>1, <1>3 DEF Disk!Command, Disk!Read, Disk!Identify, Disk!Configure, Disk!Starts,
       Disk!GoTo, ToRead, FirstLba
  <2>2. req \in Requests /\ (job = "read" => buf = <<>>)
    BY <1>1 DEF Reading, ReadSoFar
  <2>3. req.count \in Nat /\ FirstLba \in Nat /\ ToRead \in Nat \ {0} /\ FirstLba <= LBAS
    BY <2>2, Addresses
  <2>4. <<>> = [k \in 1 .. req.count - req.count |-> FirstLba + k - 1]
    BY <2>3
  <2>5. Shows'
    BY <1>1, <1>2, <2>1, <2>3 DEF Shows
  <2>6. ReadSoFar'
    <3>1. /\ req' = req /\ FirstLba' = FirstLba /\ ToRead' = ToRead
      BY <1>1 DEF FirstLba, ToRead, Disk!Count
    <3>2. req.count - req.count = 0 /\ FirstLba + 0 = FirstLba /\ ToRead - 0 = ToRead
      BY <2>3
    <3>3. job = "read" => buf' = [k \in 1 .. req.count - req.count |-> FirstLba + k - 1]
      BY <2>1, <2>2, <2>4
    <3> QED
      BY <1>1, <2>1, <2>2, <2>3, <3>1, <3>2, <3>3 DEF ReadSoFar
  <2> QED
    BY <1>1, <2>1, <2>5, <2>6 DEF Reading, Commanded, Disk!SectorsExact
<1>4. CASE op # "read"
  <2>1. job' # "read" /\ pc' # "resetting" /\ pc' # "check" /\ left' \in Nat /\ at' \in Nat
        /\ todo' \in Nat /\ (pc' = "end" => op \in {"features", "params", "idle"})
    BY <1>1, <1>4 DEF Disk!Command, Disk!Read, Disk!Identify, Disk!Configure, Disk!Starts,
       Disk!GoTo, Reading, Commanded, ReadSoFar
  <2>2. Shows'
    BY <1>1, <1>2, <2>1 DEF Shows
  <2> QED
    BY <1>1, <1>4, <2>1, <2>2 DEF Reading, Commanded, ReadSoFar, Disk!SectorsExact
<1> QED
  BY <1>3, <1>4

\* A sector comes: it is the one that the disk is at.
LEMMA SectorReading ==
  ASSUME Reading, Disk!DataComes
  PROVE  Reading'
<1>1. /\ pc = "data" /\ pc' = "settle" /\ UNCHANGED <<job, op, req, ret, rdy, cmd, err>>
      /\ todo > 0 /\ todo' = todo - 1 /\ drq = TRUE /\ err = FALSE
      /\ bsy' = TRUE /\ drq' = FALSE /\ left' = left - 1 /\ at' = at + 1
      /\ buf' = Append(buf, Disk!Offered)
  BY DEF Disk!DataComes, Disk!Sees, Disk!Taken, Disk!GoTo, Reading, Shows
<1>2. /\ left \in Nat /\ at \in Nat /\ left > 0 /\ at < LBAS
      /\ req \in Requests /\ todo \in Nat
  BY <1>1 DEF Reading, Shows, ReadSoFar
<1>3. Shows'
  <2>1. {bsy', rdy', drq', err'} \subseteq BOOLEAN
    BY <1>1 DEF Reading, Shows
  <2> QED
    BY <1>1, <1>2, <2>1 DEF Shows
<1>4. ReadSoFar'
  <2>1. CASE job # "read"
    BY <1>1, <1>2, <2>1 DEF ReadSoFar
  <2>2. CASE job = "read"
    <3> DEFINE n == req.count - todo
    <3>1. /\ cmd = "read" /\ todo <= req.count /\ at = FirstLba + n /\ left = ToRead - n
          /\ buf = [k \in 1 .. n |-> FirstLba + k - 1]
      BY <1>1, <2>2 DEF Reading, ReadSoFar
    <3>2. req.count \in Nat /\ FirstLba \in Nat /\ ToRead \in Nat /\ LBAS \in Nat
      BY <1>2, Addresses
    <3>3. n \in Nat /\ req.count - todo' = n + 1
      <4>1. /\ todo \in Nat /\ todo' = todo - 1 /\ req.count \in Nat
            /\ todo <= req.count
        BY <1>1, <1>2, <3>1, <3>2
      <4> QED
        BY <4>1
    <3>4. Disk!Offered = FirstLba + (n + 1) - 1
      BY <1>1, <3>1, <3>2, <3>3 DEF Disk!Offered
    <3>5. Append([k \in 1 .. n |-> FirstLba + k - 1], FirstLba + (n + 1) - 1)
            = [k \in 1 .. n + 1 |-> FirstLba + k - 1]
      <4> HIDE DEF n
      <4> QED
        BY <3>2, <3>3
    <3>6. buf' = [k \in 1 .. req.count - todo' |-> FirstLba + k - 1]
      BY <1>1, <3>1, <3>3, <3>4, <3>5
    <3>7. todo' \in Nat /\ todo' <= req.count /\ at' = FirstLba + (req.count - todo')
          /\ at' <= LBAS /\ left' = ToRead - (req.count - todo')
      <4>1. /\ todo \in Nat /\ todo > 0 /\ todo' = todo - 1 /\ req.count \in Nat
            /\ todo <= req.count
        BY <1>1, <1>2, <3>1, <3>2
      <4>2. at' = FirstLba + n + 1 /\ left' = ToRead - n - 1
        BY <1>1, <3>1
      <4>3. at' <= LBAS
        BY <1>1, <1>2, <3>2
      <4> HIDE DEF n
      <4> QED
        BY <3>2, <3>3, <4>1, <4>2, <4>3
    <3> QED
      BY <1>1, <1>2, <2>2, <3>1, <3>6, <3>7 DEF ReadSoFar, FirstLba, ToRead, Disk!Count
  <2> QED
    BY <2>1, <2>2
<1> QED
  BY <1>1, <1>3, <1>4 DEF Reading, Commanded, Disk!SectorsExact

\* All sectors have come.
LEMMA EndReading ==
  ASSUME Reading, Disk!DataEnds
  PROVE  Reading'
<1>1. /\ pc = "data" /\ pc' = "idle" /\ todo = 0
      /\ UNCHANGED <<bsy, rdy, drq, err, cmd, left, at, job, op, req, todo, buf>>
  BY DEF Disk!DataEnds, Disk!Return, Disk!GoTo, Disk!device
<1>2. Shows' /\ Commanded' /\ ReadSoFar'
  BY <1>1 DEF Reading, Shows, Commanded, ReadSoFar
<1>3. Disk!SectorsExact'
  <2>1. CASE job = "read"
    <3>1. req \in Requests
      BY DEF Reading, ReadSoFar
    <3>2. /\ req.count \in Nat /\ FirstLba \in Nat
          /\ req.lba < LBAS => FirstLba = req.lba
          /\ req.count \in 1 .. COUNTS => ToRead = req.count
      BY <3>1, Addresses
    <3>3. buf = [k \in 1 .. req.count - 0 |-> FirstLba + k - 1]
      BY <1>1, <2>1 DEF Reading, ReadSoFar
    <3>4. buf = [k \in 1 .. req.count |-> FirstLba + k - 1]
      BY <3>2, <3>3
    <3>5. err \/ left = ToRead - req.count
      BY <1>1, <2>1, <3>2 DEF Reading, ReadSoFar
    <3>6. err => left = 0
      BY <1>1, <2>1 DEF Reading, ReadSoFar
    <3>7. req.count \in 1 .. COUNTS => left = 0 /\ ~drq
      BY <3>2, <3>5, <3>6 DEF Reading, Shows
    <3>8. FirstLba + req.count <= LBAS
      <4>1. at = FirstLba + (req.count - 0) /\ at <= LBAS
        BY <1>1, <2>1 DEF Reading, ReadSoFar
      <4> QED
        BY <3>2, <4>1
    <3> QED
      BY <1>1, <3>2, <3>4, <3>7, <3>8 DEF Disk!SectorsExact, Disk!Addressed
  <2> QED
    BY <1>1, <2>1 DEF Disk!SectorsExact
<1> QED
  BY <1>2, <1>3 DEF Reading

LEMMA StillReading ==
  ASSUME Reading, Disk!Next
  PROVE  Reading'
BY DiskReading, CallReading, CommandReading, SectorReading, EndReading DEF Disk!Next, Disk!Driver

----------------------------------------------------------------------------
(* The flash ROM *)

Written ==
  /\ words \in [Rom!Offset -> SUBSET Rom!Bits] /\ image \in [Rom!Offset -> SUBSET Rom!Bits]
  /\ toggle \in BOOLEAN /\ job \in {"reset", "erase", "word"} /\ offset \in Rom!Offset
  /\ job = "word" => /\ pc \in {"write", "status0", "status1", "end"}
                     /\ \A k \in 0 .. offset - 1 : words[k] = image[k]

Store == Rom!Data(offset, image[offset])

\* The commands as they come out of Unlock.
EraseCommand ==
  <<Rom!Code(Rom!First, "AA"), Rom!Code(Rom!Second, "55"), Rom!Code(Rom!First, "80"),
    Rom!Code(Rom!First, "AA"), Rom!Code(Rom!Second, "55"), Rom!Code(Rom!First, "10")>>

\* While a word's command is written the chip does nothing else, and follows it; the
\* command to erase may find it at anything, but ends as it must.
Commands ==
  pc = "write" =>
    /\ writes # <<>>
    /\ job = "erase" => \E k \in 1 .. 6 : writes = SubSeq(EraseCommand, k, 6)
    /\ job = "word" =>
         \/ mode = "read" /\ writes = <<Rom!Code(Rom!First, "AA"), Rom!Code(Rom!Second, "55"),
                                        Rom!Code(Rom!First, "A0"), Store>>
         \/ mode = "AA" /\ writes = <<Rom!Code(Rom!Second, "55"), Rom!Code(Rom!First, "A0"), Store>>
         \/ mode = "55" /\ writes = <<Rom!Code(Rom!First, "A0"), Store>>
         \/ mode = "A0" /\ writes = <<Store>>

\* What two reads of the status can tell.
Polls ==
  /\ pc \in {"status0", "status1"} =>
       /\ mode \in Rom!Working \cup {"read", "failed"} /\ job \in {"erase", "word"}
       /\ job = "word" => \/ mode = "programming" /\ target = Store
                          \/ mode = "read" /\ words[offset] = image[offset]
                          \/ mode = "failed"
  /\ pc = "status1" =>
       /\ Rom!Toggling => (Rom!DQ6 \in status0 <=> ~toggle)
       /\ Rom!DQ5 \in status0 => mode = "failed" \/ (mode = "read" /\ status0 = words[0])
  /\ pc = "end" => mode \notin Rom!Working

Burning == Written /\ Commands /\ Polls /\ Rom!FlashExact

LEMMA Joined ==
  ASSUME NEW a, NEW b, NEW c, NEW d
  PROVE  /\ <<a, b>> \o <<c>> = <<a, b, c>>
         /\ <<a, b>> \o <<c, d>> = <<a, b, c, d>>
<1> DEFINE S == {a, b, c, d}
<1> HIDE DEF S
<1>1. <<a, b>> \o <<c>> = <<a, b, c>>
  <2> DEFINE j == <<a, b>> \o <<c>>
  <2>1. /\ <<a, b>> \in Seq(S) /\ <<c>> \in Seq(S) /\ <<a, b, c>> \in Seq(S)
        /\ Len(<<a, b>>) = 2 /\ Len(<<c>>) = 1 /\ Len(<<a, b, c>>) = 3
    BY DEF S
  <2>2. /\ j \in Seq(S) /\ Len(j) = 3
        /\ \A n \in 1 .. 3 : j[n] = IF n <= 2 THEN <<a, b>>[n] ELSE <<c>>[n - 2]
    BY <2>1, ConcatProperties
  <2>3. j[1] = a /\ j[2] = b /\ j[3] = c
    BY <2>2
  <2> HIDE DEF j
  <2>4. j = <<a, b, c>>
    BY <2>1, <2>2, <2>3
  <2> QED
    BY <2>4 DEF j
<1>2. <<a, b>> \o <<c, d>> = <<a, b, c, d>>
  <2> DEFINE j == <<a, b>> \o <<c, d>>
  <2>1. /\ <<a, b>> \in Seq(S) /\ <<c, d>> \in Seq(S) /\ <<a, b, c, d>> \in Seq(S)
        /\ Len(<<a, b>>) = 2 /\ Len(<<c, d>>) = 2 /\ Len(<<a, b, c, d>>) = 4
    BY DEF S
  <2>2. /\ j \in Seq(S) /\ Len(j) = 4
        /\ \A n \in 1 .. 4 : j[n] = IF n <= 2 THEN <<a, b>>[n] ELSE <<c, d>>[n - 2]
    BY <2>1, ConcatProperties
  <2>3. j[1] = a /\ j[2] = b /\ j[3] = c /\ j[4] = d
    BY <2>2
  <2> HIDE DEF j
  <2>4. j = <<a, b, c, d>>
    BY <2>1, <2>2, <2>3
  <2> QED
    BY <2>4 DEF j
<1> QED
  BY <1>1, <1>2

LEMMA JoinedAgain ==
  ASSUME NEW a, NEW b, NEW c, NEW d
  PROVE  (<<a, b, c>> \o <<a, b>>) \o <<d>> = <<a, b, c, a, b, d>>
<1> DEFINE S == {a, b, c, d}
<1> HIDE DEF S
<1>1. <<a, b, c>> \o <<a, b>> = <<a, b, c, a, b>>
  <2> DEFINE j == <<a, b, c>> \o <<a, b>>
  <2>1. /\ <<a, b, c>> \in Seq(S) /\ <<a, b>> \in Seq(S) /\ <<a, b, c, a, b>> \in Seq(S)
        /\ Len(<<a, b, c>>) = 3 /\ Len(<<a, b>>) = 2 /\ Len(<<a, b, c, a, b>>) = 5
    BY DEF S
  <2>2. /\ j \in Seq(S) /\ Len(j) = 5
        /\ \A n \in 1 .. 5 : j[n] = IF n <= 3 THEN <<a, b, c>>[n] ELSE <<a, b>>[n - 3]
    BY <2>1, ConcatProperties
  <2>3. j[1] = a /\ j[2] = b /\ j[3] = c /\ j[4] = a /\ j[5] = b
    BY <2>2
  <2> HIDE DEF j
  <2>4. j = <<a, b, c, a, b>>
    BY <2>1, <2>2, <2>3
  <2> QED
    BY <2>4 DEF j
<1>2. <<a, b, c, a, b>> \o <<d>> = <<a, b, c, a, b, d>>
  <2> DEFINE j == <<a, b, c, a, b>> \o <<d>>
  <2>1. /\ <<a, b, c, a, b>> \in Seq(S) /\ <<d>> \in Seq(S) /\ <<a, b, c, a, b, d>> \in Seq(S)
        /\ Len(<<a, b, c, a, b>>) = 5 /\ Len(<<d>>) = 1 /\ Len(<<a, b, c, a, b, d>>) = 6
    BY DEF S
  <2>2. /\ j \in Seq(S) /\ Len(j) = 6
        /\ \A n \in 1 .. 6 : j[n] = IF n <= 5 THEN <<a, b, c, a, b>>[n] ELSE <<d>>[n - 5]
    BY <2>1, ConcatProperties
  <2>3. j[1] = a /\ j[2] = b /\ j[3] = c /\ j[4] = a /\ j[5] = b /\ j[6] = d
    BY <2>2
  <2> HIDE DEF j
  <2>4. j = <<a, b, c, a, b, d>>
    BY <2>1, <2>2, <2>3
  <2> QED
    BY <2>4 DEF j
<1> QED
  BY <1>1, <1>2

LEMMA EraseWrites ==
  /\ Rom!CommandOf("erase", 0) = SubSeq(EraseCommand, 1, 6)
  /\ \A k \in 1 .. 6 :
       LET w == SubSeq(EraseCommand, k, 6)
       IN  /\ w # <<>> /\ Head(w) = EraseCommand[k] /\ Tail(w) = SubSeq(EraseCommand, k + 1, 6)
           /\ (Tail(w) = <<>>) <=> (k = 6)
<1>1. Rom!CommandOf("erase", 0) = EraseCommand
  <2> DEFINE a == Rom!Code(Rom!First, "AA")
             b == Rom!Code(Rom!Second, "55")
             c == Rom!Code(Rom!First, "80")
             d == Rom!Code(Rom!First, "10")
  <2>1. Rom!CommandOf("erase", 0) = ((<<a, b>> \o <<c>>) \o <<a, b>>) \o <<d>>
    BY DEF Rom!CommandOf, Rom!Unlock
  <2>2. EraseCommand = <<a, b, c, a, b, d>>
    BY DEF EraseCommand
  <2> HIDE DEF a, b, c, d
  <2>3. <<a, b>> \o <<c>> = <<a, b, c>>
    BY Joined
  <2>4. (<<a, b, c>> \o <<a, b>>) \o <<d>> = <<a, b, c, a, b, d>>
    BY JoinedAgain
  <2> QED
    BY <2>1, <2>2, <2>3, <2>4
<1> DEFINE S == {EraseCommand[j] : j \in 1 .. 6}
<1>2. Len(EraseCommand) = 6 /\ EraseCommand = SubSeq(EraseCommand, 1, 6)
  BY DEF EraseCommand
<1>3. \A j \in 1 .. 6 : EraseCommand[j] \in S
  OBVIOUS
<1> HIDE DEF S
<1>4. ASSUME NEW k \in 1 .. 6
      PROVE  LET w == SubSeq(EraseCommand, k, 6)
             IN  /\ w # <<>> /\ Head(w) = EraseCommand[k]
                 /\ Tail(w) = SubSeq(EraseCommand, k + 1, 6) /\ ((Tail(w) = <<>>) <=> (k = 6))
  <2> DEFINE w == SubSeq(EraseCommand, k, 6)
             v == SubSeq(EraseCommand, k + 1, 6)
  <2>2. w \in Seq(S) /\ Len(w) = 7 - k /\ \A n \in 1 .. 7 - k : w[n] = EraseCommand[k + n - 1]
    BY <1>3, SubSeqProperties
  <2>3. v \in Seq(S) /\ Len(v) = 6 - k /\ \A n \in 1 .. 6 - k : v[n] = EraseCommand[k + n]
    BY <1>3, SubSeqProperties
  <2> HIDE DEF w, v
  <2>4. w # <<>> /\ Head(w) = EraseCommand[k]
    BY <2>2
  <2>5. Tail(w) \in Seq(S) /\ Len(Tail(w)) = 6 - k /\ \A n \in 1 .. 6 - k : Tail(w)[n] = w[n + 1]
    BY <2>2, <2>4, HeadTailProperties
  <2>6. Tail(w) = v
    BY <2>2, <2>3, <2>5
  <2>7. (Tail(w) = <<>>) <=> (k = 6)
    <3>1. Tail(w) \in Seq(S) /\ Len(Tail(w)) = 6 - k
      BY <2>5
    <3> QED
      BY <3>1, EmptySeq
  <2> QED
    BY <2>4, <2>6, <2>7 DEF w, v
<1> QED
  BY <1>1, <1>2, <1>4

LEMMA WordWrites ==
  ASSUME NEW o
  PROVE  Rom!CommandOf("word", o) = <<Rom!Code(Rom!First, "AA"), Rom!Code(Rom!Second, "55"),
                                      Rom!Code(Rom!First, "A0"), Rom!Data(o, image[o])>>
<1> DEFINE a == Rom!Code(Rom!First, "AA")
           b == Rom!Code(Rom!Second, "55")
           c == Rom!Code(Rom!First, "A0")
           d == Rom!Data(o, image[o])
<1>1. Rom!CommandOf("word", o) = <<a, b>> \o <<c, d>>
  BY DEF Rom!CommandOf, Rom!Unlock
<1> HIDE DEF a, b, c, d
<1>2. Rom!CommandOf("word", o) = <<a, b, c, d>>
  BY <1>1, Joined
<1> QED
  BY <1>2 DEF a, b, c, d

LEMMA ResetWrites == Rom!CommandOf("reset", 0) # <<>>
<1> DEFINE a == Rom!Code(Rom!First, "AA")
           b == Rom!Code(Rom!Second, "55")
           c == Rom!Code(Rom!First, "F0")
<1>1. Rom!CommandOf("reset", 0) = <<a, b>> \o <<c>>
  BY DEF Rom!CommandOf, Rom!Unlock
<1> HIDE DEF a, b, c
<1>2. Rom!CommandOf("reset", 0) = <<a, b, c>>
  BY <1>1, Joined
<1> QED
  BY <1>2

\* The chip follows a word's command, and is at work or free after that to erase.
LEMMA ChipFollows ==
  /\ mode = "read" => Rom!After(Rom!Code(Rom!First, "AA")) = "AA"
  /\ mode = "AA" => Rom!After(Rom!Code(Rom!Second, "55")) = "55"
  /\ mode = "55" => Rom!After(Rom!Code(Rom!First, "A0")) = "A0"
  /\ mode = "A0" /\ offset \in Rom!Offset => Rom!After(Store) = "programming"
  /\ Rom!After(Rom!Code(Rom!First, "10")) \in Rom!Working \cup {"read", "failed"}
BY DEF Rom!After, Rom!Code, Rom!Data, Rom!Working, Rom!Offset, Rom!First, Rom!Second, Store

LEMMA RomConstants ==
  /\ Size \in Nat \ {0} /\ Rom!Offset = 0 .. Size - 1 /\ 0 \in Rom!Offset
  /\ Images \subseteq [Rom!Offset -> SUBSET Rom!Bits]
BY StorageConstantsOK DEF Rom!FlashConstantsOK, Rom!Offset

\* A command is begun.
LEMMA BeginBurning ==
  ASSUME Burning, NEW j, NEW o \in Rom!Offset, Rom!Begin(j, o),
         UNCHANGED <<words, mode, image>>, toggle' \in BOOLEAN,
         \/ j \in {"reset", "erase"} /\ o = 0
         \/ j = "word" /\ mode = "read" /\ \A k \in 0 .. o - 1 : words[k] = image[k]
  PROVE  Burning'
<1>1. pc' = "write" /\ job' = j /\ offset' = o /\ writes' = Rom!CommandOf(j, o)
  BY DEF Rom!Begin
<1>2. Written'
  BY <1>1 DEF Burning, Written
<1>3. Commands'
  <2>1. CASE j = "reset" /\ o = 0
    BY <1>1, <2>1, ResetWrites DEF Commands
  <2>2. CASE j = "erase" /\ o = 0
    BY <1>1, <2>2, EraseWrites DEF Commands
  <2>3. CASE j = "word" /\ mode = "read"
    BY <1>1, <2>3, WordWrites DEF Commands, Store
  <2> QED
    BY <2>1, <2>2, <2>3
<1> QED
  BY <1>1, <1>2, <1>3 DEF Burning, Polls, Rom!FlashExact

\* What the chip does on its own, and a reset of the board.
LEMMA ChipBurning ==
  ASSUME Burning, Rom!Chip \/ Rom!Restart
  PROVE  Burning'
<1>1. CASE Rom!Restart
  <2>1. Written'
    BY <1>1, RomConstants DEF Rom!Restart, Rom!chip, Burning, Written
  <2> QED
    BY <1>1, <2>1 DEF Rom!Restart, Burning, Commands, Polls, Rom!FlashExact
<1>2. CASE Rom!Chip
  <2>1. /\ UNCHANGED <<toggle, target, pc, writes, job, offset, status0, result, image>>
        /\ mode \in Rom!Working /\ mode' \in {"read", "failed"}
    BY <1>2 DEF Rom!Chip, Rom!Programmed, Rom!Erased, Rom!program, Rom!Working
  <2>2. words' \in [Rom!Offset -> SUBSET Rom!Bits]
    BY <1>2 DEF Rom!Chip, Rom!Programmed, Rom!Erased, Burning, Written
  <2>3. pc # "end" /\ (pc = "write" => job # "word")
    BY <2>1 DEF Burning, Polls, Commands, Rom!Working
  <2>4. CASE job = "word"
    <3>1. /\ pc \in {"status0", "status1"} /\ mode = "programming" /\ target = Store
          /\ offset \in Nat /\ words \in [Rom!Offset -> SUBSET Rom!Bits]
          /\ \A k \in 0 .. offset - 1 : words[k] = image[k]
      BY <2>1, <2>3, <2>4, RomConstants DEF Burning, Written, Polls, Rom!Working
    <3>2. /\ words' = [words EXCEPT ![offset] = @ \cap image[offset]]
          /\ mode' = "read" => image[offset] \subseteq words[offset]
      BY <1>2, <3>1 DEF Rom!Chip, Rom!Programmed, Rom!Erased, Store, Rom!Data
    <3>3. /\ \A k \in 0 .. offset - 1 : words'[k] = image[k]
          /\ mode' = "read" => words'[offset] = image[offset]
      BY <3>1, <3>2, RomConstants DEF Burning, Written
    <3> QED
      BY <2>1, <2>2, <2>3, <2>4, <3>1, <3>3 DEF Burning, Written, Commands, Polls, Rom!FlashExact,
         Rom!Toggling, Store
  <2>5. CASE job # "word"
    <3>1. Written' /\ Rom!FlashExact'
      BY <2>1, <2>2, <2>3, <2>5 DEF Burning, Written, Rom!FlashExact
    <3>2. Commands'
      BY <2>1, <2>5 DEF Burning, Commands
    <3>3. Polls'
      <4>1. pc = "status1" => (Rom!DQ6 \in status0 <=> ~toggle) /\ Rom!DQ5 \notin status0
        BY <2>1 DEF Burning, Polls, Rom!Toggling, Rom!Working
      <4> QED
        BY <2>1, <2>3, <2>5, <4>1 DEF Burning, Polls
    <3> QED
      BY <3>1, <3>2, <3>3 DEF Burning
  <2> QED
    BY <2>4, <2>5
<1> QED
  BY <1>1, <1>2

\* The program.
LEMMA ProgramBurning ==
  ASSUME Burning, Rom!Program
  PROVE  Burning'
<1>1. CASE Rom!do_flash
  BY <1>1, BeginBurning, RomConstants DEF Rom!do_flash, Rom!chip, Burning, Written
<1>2. CASE Rom!flash_reset
  <2>1. toggle' \in BOOLEAN /\ UNCHANGED <<words, mode, image>>
    BY <1>2 DEF Rom!flash_reset, Rom!ReadOnce
  <2> QED
    BY <1>2, <2>1, BeginBurning, RomConstants DEF Rom!flash_reset
<1>3. CASE Rom!WriteNext
  <2>1. /\ pc = "write" /\ writes' = Tail(writes) /\ mode' = Rom!After(Head(writes))
        /\ target' = IF mode = "A0" /\ Head(writes).at \in Rom!Offset THEN Head(writes) ELSE target
        /\ pc' = IF writes' # <<>> THEN "write" ELSE IF job = "reset" THEN "read" ELSE "status0"
        /\ UNCHANGED <<words, toggle, job, offset, status0, result, image>>
    BY <1>3 DEF Rom!WriteNext, Rom!Written
  <2>2. Written'
    BY <2>1 DEF Burning, Written
  <2>3. CASE job = "erase"
    <3>1. PICK k \in 1 .. 6 : writes = SubSeq(EraseCommand, k, 6)
      BY <2>1, <2>3 DEF Burning, Commands
    <3>2. /\ Head(writes) = EraseCommand[k] /\ writes' = SubSeq(EraseCommand, k + 1, 6)
          /\ (writes' = <<>>) <=> (k = 6)
      BY <2>1, <3>1, EraseWrites
    <3>3. EraseCommand[6] = Rom!Code(Rom!First, "10")
      BY DEF EraseCommand
    <3>4. k = 6 => mode' \in Rom!Working \cup {"read", "failed"}
      BY <2>1, <3>2, <3>3, ChipFollows
    <3>5. Commands'
      <4>1. pc' = "write" => writes' # <<>> /\ k + 1 \in 1 .. 6
        BY <2>1, <3>2
      <4> QED
        BY <2>1, <2>3, <3>2, <4>1 DEF Commands
    <3>6. Polls'
      BY <2>1, <2>3, <3>2, <3>4 DEF Polls
    <3> QED
      BY <2>1, <2>2, <3>5, <3>6 DEF Burning, Rom!FlashExact
  <2>4. CASE job = "word"
    <3> DEFINE a == Rom!Code(Rom!First, "AA")
               b == Rom!Code(Rom!Second, "55")
               c == Rom!Code(Rom!First, "A0")
    <3>1. \/ mode = "read" /\ writes = <<a, b, c, Store>>
          \/ mode = "AA" /\ writes = <<b, c, Store>>
          \/ mode = "55" /\ writes = <<c, Store>>
          \/ mode = "A0" /\ writes = <<Store>>
      BY <2>1, <2>4 DEF Burning, Commands
    <3>2. offset \in Rom!Offset /\ Store' = Store
      BY <2>1 DEF Burning, Written, Store
    <3>3. /\ mode = "read" => Rom!After(a) = "AA"
          /\ mode = "AA" => Rom!After(b) = "55"
          /\ mode = "55" => Rom!After(c) = "A0"
          /\ mode = "A0" => Rom!After(Store) = "programming"
      BY <3>2, ChipFollows
    <3>4. Store.at \in Rom!Offset
      BY <3>2 DEF Store, Rom!Data
    <3>5. a' = a /\ b' = b /\ c' = c
      BY DEF a, b, c
    <3> HIDE DEF a, b, c
    <3>6. \/ mode' = "AA" /\ writes' = <<b, c, Store>> /\ pc' = "write"
          \/ mode' = "55" /\ writes' = <<c, Store>> /\ pc' = "write"
          \/ mode' = "A0" /\ writes' = <<Store>> /\ pc' = "write"
          \/ mode' = "programming" /\ target' = Store /\ pc' = "status0"
      <4>1. CASE mode = "read" /\ writes = <<a, b, c, Store>>
        <5>1. Head(writes) = a /\ Tail(writes) = <<b, c, Store>>
          BY <4>1
        <5> QED
          BY <2>1, <3>3, <4>1, <5>1
      <4>2. CASE mode = "AA" /\ writes = <<b, c, Store>>
        <5>1. Head(writes) = b /\ Tail(writes) = <<c, Store>>
          BY <4>2
        <5> QED
          BY <2>1, <3>3, <4>2, <5>1
      <4>3. CASE mode = "55" /\ writes = <<c, Store>>
        <5>1. Head(writes) = c /\ Tail(writes) = <<Store>>
          BY <4>3
        <5> QED
          BY <2>1, <3>3, <4>3, <5>1
      <4>4. CASE mode = "A0" /\ writes = <<Store>>
        <5>1. Head(writes) = Store /\ Tail(writes) = <<>>
          BY <4>4
        <5> QED
          BY <2>1, <2>4, <3>3, <3>4, <4>4, <5>1
      <4> QED
        BY <3>1, <4>1, <4>2, <4>3, <4>4
    <3>7. Commands'
      BY <2>1, <2>4, <3>2, <3>6 DEF Commands, a, b, c
    <3>8. Polls'
      BY <2>1, <2>4, <3>2, <3>6 DEF Polls, Rom!Working
    <3> QED
      BY <2>1, <2>2, <3>6, <3>7, <3>8 DEF Burning, Rom!FlashExact
  <2>5. CASE job = "reset"
    BY <2>1, <2>2, <2>5 DEF Burning, Commands, Polls, Rom!FlashExact
  <2> QED
    BY <2>3, <2>4, <2>5 DEF Burning, Written
<1>4. CASE Rom!ReadStatus0
  <2>1. /\ pc = "status0" /\ pc' = "status1" /\ status0' = Rom!Status
        /\ toggle' = (toggle # Rom!Toggling)
        /\ UNCHANGED <<words, mode, target, writes, job, offset, result, image>>
    BY <1>4 DEF Rom!ReadStatus0, Rom!ReadOnce
  <2>2. toggle \in BOOLEAN /\ toggle' \in BOOLEAN
    BY <2>1 DEF Burning, Written
  <2>3. Rom!Toggling' => toggle' = ~toggle
    BY <2>1, <2>2, Zenon DEF Rom!Toggling
  <2>4. Rom!Toggling' => (Rom!DQ6 \in status0' <=> ~toggle')
    BY <2>1, <2>2, <2>3 DEF Rom!Toggling, Rom!Status, Rom!DQ5, Rom!DQ6
  <2>5. mode \in Rom!Working \cup {"read", "failed"}
    BY <2>1 DEF Burning, Polls
  <2>6. Rom!DQ5 \in status0' => mode = "failed" \/ (mode = "read" /\ status0' = words[0])
    BY <2>1, <2>5 DEF Rom!Toggling, Rom!Status, Rom!DQ5, Rom!DQ6, Rom!Working
  <2>7. Written'
    BY <2>1, <2>2 DEF Burning, Written
  <2> QED
    BY <2>1, <2>4, <2>6, <2>7 DEF Burning, Commands, Polls, Rom!FlashExact, Store
<1>5. CASE Rom!ReadStatus1
  <2>1. /\ pc = "status1" /\ toggle' = (toggle # Rom!Toggling) /\ toggle \in BOOLEAN
        /\ UNCHANGED <<words, mode, target, status0, image>>
    BY <1>5 DEF Rom!ReadStatus1, Rom!ReadOnce, Burning, Written
  <2>2. toggle' \in BOOLEAN
    BY <2>1
  <2>3. /\ mode \in Rom!Working \cup {"read", "failed"} /\ job \in {"erase", "word"}
        /\ job = "word" => \/ mode = "programming" /\ target = Store
                           \/ mode = "read" /\ words[offset] = image[offset]
                           \/ mode = "failed"
        /\ Rom!Toggling => (Rom!DQ6 \in status0 <=> ~toggle)
        /\ Rom!DQ5 \in status0 => mode = "failed" \/ (mode = "read" /\ status0 = words[0])
    BY <2>1 DEF Burning, Polls
  <2>4. CASE Rom!Over(Rom!Status) /\ Rom!Succeeded
    <3>1. mode = "read"
      <4>1. Rom!Toggling => (Rom!DQ6 \in Rom!Status <=> toggle)
        BY DEF Rom!Status, Rom!DQ5, Rom!DQ6
      <4> QED
        BY <2>1, <2>3, <2>4, <4>1 DEF Rom!Over, Rom!Toggling
    <3>2. /\ offset \in Rom!Offset /\ words \in [Rom!Offset -> SUBSET Rom!Bits]
          /\ image \in [Rom!Offset -> SUBSET Rom!Bits]
          /\ job = "word" => \A k \in 0 .. offset : words[k] = image[k]
      <4>1. /\ offset \in Rom!Offset
            /\ job = "word" => (\A k \in 0 .. offset - 1 : words[k] = image[k])
        BY DEF Burning, Written
      <4>2. job = "word" => words[offset] = image[offset]
        BY <2>3, <3>1
      <4>3. \A k \in 0 .. offset : k = offset \/ k \in 0 .. offset - 1
        BY <4>1, RomConstants
      <4> QED
        BY <4>1, <4>2, <4>3 DEF Burning, Written
    <3>3. CASE job = "word" /\ offset = Size - 1
      <4>1. words = image
        BY <3>2, <3>3, RomConstants
      <4>2. pc' = "end" /\ result' = 0 /\ UNCHANGED <<writes, job, offset>>
        BY <2>4, <3>3 DEF Rom!Succeeded
      <4>3. Written'
        BY <2>1, <2>2, <4>2 DEF Burning, Written
      <4> QED
        BY <2>1, <3>1, <4>1, <4>2, <4>3 DEF Burning, Commands, Polls, Rom!FlashExact, Rom!Working
    <3>4. CASE ~(job = "word" /\ offset = Size - 1)
      <4> DEFINE o == IF job = "erase" THEN 0 ELSE offset + 1
      <4>1. Rom!Begin("word", o)
        BY <2>4, <3>4 DEF Rom!Succeeded
      <4>2. o \in Rom!Offset
        BY <2>3, <3>2, <3>4, RomConstants
      <4>3. \A k \in 0 .. o - 1 : words[k] = image[k]
        BY <2>3, <3>2, RomConstants
      <4> HIDE DEF o
      <4> QED
        BY <2>1, <2>2, <3>1, <4>1, <4>2, <4>3, BeginBurning
    <3> QED
      BY <3>3, <3>4
  <2>5. CASE ~Rom!Over(Rom!Status) /\ Rom!TooLong /\ pc' = "end" /\ result' # 0
             /\ UNCHANGED <<writes, job, offset>>
    <3>1. mode = "failed"
      BY <2>1, <2>3, <2>5 DEF Rom!TooLong, Rom!Over, Rom!Status, Rom!Toggling, Rom!Working
    <3>2. Written'
      BY <2>1, <2>2, <2>5 DEF Burning, Written
    <3> QED
      BY <2>1, <2>5, <3>1, <3>2 DEF Burning, Commands, Polls, Rom!FlashExact, Rom!Working
  <2>6. CASE pc' = "status0" /\ UNCHANGED <<writes, job, offset, result>>
    <3>1. Written'
      BY <2>1, <2>2, <2>6 DEF Burning, Written
    <3> QED
      BY <2>1, <2>3, <2>6, <3>1 DEF Burning, Commands, Polls, Rom!FlashExact, Store
  <2> QED
    BY <1>5, <2>4, <2>5, <2>6 DEF Rom!ReadStatus1
<1> QED
  BY <1>1, <1>2, <1>3, <1>4, <1>5 DEF Rom!Program

----------------------------------------------------------------------------
(* Both devices *)

Exact ==
  /\ device = "disk" => Reading
  /\ device = "flash" => Burning

\* When a read of device 0 at an address of 28 bits succeeds, the sectors are the ones
\* asked for, in order, each once and all on the disk; when any read of 1 to 256 sectors
\* does, the disk has nothing left to offer to the next command.  When the flash writer
\* says that it has written the image, it has, whatever the chip was in the middle of
\* when the board was reset.
THEOREM DataIsExact == Spec => []DataExact
<1>1. ASSUME Init
      PROVE  Exact
  <2>1. CASE device = "disk" /\ Disk!Init
    <3>1. Shows
      BY <2>1 DEF Disk!Init, Shows
    <3>2. Commanded /\ ReadSoFar /\ Disk!SectorsExact
      BY <2>1 DEF Disk!Init, Commanded, ReadSoFar, Disk!SectorsExact
    <3> QED
      BY <2>1, <3>1, <3>2 DEF Exact, Reading
  <2>2. CASE device = "flash" /\ Rom!Init
    <3>1. Written
      BY <2>2, RomConstants DEF Rom!Init, Written
    <3> QED
      BY <2>2, <3>1 DEF Rom!Init, Exact, Burning, Commands, Polls, Rom!FlashExact
  <2> QED
    BY <1>1, <2>1, <2>2 DEF Init
<1>2. ASSUME Exact, [Next]_vars
      PROVE  Exact'
  <2>1. CASE OnlyDisk /\ Disk!Next
    BY <1>2, <2>1, StillReading DEF Exact, OnlyDisk
  <2>2. CASE OnlyFlash /\ Rom!Next
    BY <1>2, <2>2, ChipBurning, ProgramBurning DEF Exact, OnlyFlash, Rom!Next
  <2>3. CASE UNCHANGED vars
    <3>1. CASE device = "disk"
      <4>1. Reading
        BY <1>2, <3>1 DEF Exact
      <4>2. UNCHANGED <<device, pc, job, diskVars>>
        BY <2>3 DEF vars
      <4>3. FirstLba' = FirstLba /\ ToRead' = ToRead
        BY <4>2 DEF diskVars, FirstLba, ToRead, Disk!Count
      <4>4. Shows' /\ Commanded' /\ ReadSoFar'
        BY <4>1, <4>2, <4>3 DEF diskVars, Reading, Shows, Commanded, ReadSoFar
      <4>5. Disk!SectorsExact'
        BY <4>1, <4>2 DEF diskVars, Reading, Disk!SectorsExact
      <4> QED
        BY <3>1, <4>2, <4>4, <4>5 DEF Exact, Reading
    <3>2. CASE device = "flash"
      BY <1>2, <2>3, <3>2 DEF vars, flashVars, Exact, Burning, Written, Commands, Polls, Store,
         Rom!Toggling, Rom!FlashExact
    <3> QED
      BY <2>3, <3>1, <3>2 DEF vars, Exact
  <2> QED
    BY <1>2, <2>1, <2>2, <2>3 DEF Next
<1>3. Exact => DataExact
  BY DEF Exact, DataExact, Reading, Burning
<1> QED
  BY <1>1, <1>2, <1>3, PTL DEF Spec
=============================================================================
