----------------------------- MODULE AdminProofs ----------------------------
(***************************************************************************)
(* The file of nbdxadm, the directories of configfs and the devices of the *)
(* kernel module agree, and nothing freed is used, for any number of       *)
(* hosts, devices and portals, under the administration the code is        *)
(* written for.  The invariant is the one of LifeCycleProofs.              *)
(***************************************************************************)
EXTENDS LifeCycleProofs, SetLemmas

(* A command that changes one section of its copy of the file. *)
LEMMA Writes ==
    ASSUME Shape, NEW a \in Adm, NEW s \in Section, NEW v,
           s \in Host => v \in PortalFile \cup {None}, s \in Dev => v \in Host \cup {None},
           NEW pc \in {"save", "sleep", "rmhost"},
           adm' = [adm EXCEPT ![a] = [adm[a] EXCEPT !.pc = pc,
                                          !.parser = [adm[a].parser EXCEPT ![s] = v]]]
    PROVE  /\ adm' \in [Adm -> CommandRec]
           /\ adm'[a].pc = pc /\ adm'[a].host = adm[a].host /\ adm'[a].dev = adm[a].dev
           /\ \A x \in Section : adm'[a].parser[x] = IF x = s THEN v ELSE adm[a].parser[x]
<1> DEFINE g == [adm[a].parser EXCEPT ![s] = v]
           c == [adm[a] EXCEPT !.pc = pc, !.parser = g]
<1>1. adm[a] \in CommandRec /\ adm[a].parser \in Text
  BY Zenon DEF Shape, CommandRec
<1>2. g \in Text /\ \A x \in Section : g[x] = IF x = s THEN v ELSE adm[a].parser[x]
  BY <1>1, LifeCycleAssumption, Zenon DEF Text, Section
<1>3. c \in CommandRec /\ c.pc = pc /\ c.host = adm[a].host /\ c.dev = adm[a].dev
      /\ c.parser = g
  <2> HIDE DEF g
  <2> QED BY <1>1, <1>2, Zenon DEF CommandRec
<1>4. adm' = [adm EXCEPT ![a] = c]
  OBVIOUS
<1> HIDE DEF c, g
<1>5. adm' \in [Adm -> CommandRec] /\ adm'[a] = c
  BY <1>3, <1>4 DEF Shape
<1> QED BY <1>2, <1>3, <1>5, Zenon

LEMMA MkDevOK ==
    ASSUME Tested, IInv, NEW a \in Adm, MkDev(a) PROVE IInv'
<1> DEFINE h == adm[a].host
           d == adm[a].dev
           f == adm[a].parser
<1>0. /\ adm[a].pc = "mkdev" /\ Shape /\ CommandOK(adm[a]) /\ UNCHANGED <<ini, IS_indexes>>
      /\ adm[a] \in CommandRec
  BY Zenon DEF MkDev, At, IInv, Shape
<1>1. /\ Describes(f, None) /\ ini = f /\ h \in Host /\ d \in Dev /\ session[h].made
      /\ Cardinality(held) < MaxMajors /\ \A e \in Dev : ~file[e].made
  BY <1>0, Zenon DEF CommandOK, AtWork, Reads
<1> HIDE DEF h, d, f
<1>2. CASE UNCHANGED lifeVars /\ Exit(a)
  BY <1>0, <1>1, <1>2, EndsUnchanged, ZenonT(40) DEF Shape
<1>3. CASE IS_device_make_group(h, d) /\ Go(a, "device")
  <2>1. /\ file' = [file EXCEPT ![d] = NewFile(h)]
        /\ UNCHANGED <<up, loaded, session, trigger, NUM_CB, stackbd, major_num, held, ini>>
    BY <1>0, <1>3, Zenon DEF IS_device_make_group
  <2>2. /\ NewFile(h) \in FileRec /\ NewFile(h).made /\ NewFile(h).host = h
        /\ NewFile(h).disk = "null" /\ NewFile(h).state = "OPENNING"
    BY <1>1 DEF NewFile, FileRec
  <2>3. /\ file' \in [Dev -> {NoFile} \cup FileRec]
        /\ \A e \in Dev : file'[e] = IF e = d THEN NewFile(h) ELSE file[e]
    BY <1>0, <2>1, <2>2, Zenon DEF Shape
  <2>4. /\ adm' \in [Adm -> CommandRec]
        /\ adm'[a].pc = "device" /\ adm'[a].host = h /\ adm'[a].dev = d
        /\ adm'[a].portal = adm[a].portal /\ adm'[a].parser = f
    BY <1>0, <1>3, Goes, Zenon DEF h, d, f
  <2>5. up' /\ Shape'
    BY <2>1, <2>3, <2>4, Zenon DEF IInv, Shape
  <2>6. ThreadsOK' /\ PortalsDistinct'
    BY <2>1, Zenon DEF IInv, ThreadsOK, PortalsDistinct, Hosts
  <2>8. DevicesOK'
    BY <1>1, <2>1, <2>2, <2>3, ZenonT(40) DEF IInv, DevicesOK
  <2>10. Describes(adm[a].parser, AtWork(adm[a]))'
    <3>1. AtWork(adm[a])' = d
      BY <2>4, Zenon DEF AtWork
    <3>2. d \notin Host /\ None \notin Host
      BY <1>1, LifeCycleAssumption, Zenon
    <3>3. \A g \in Host :
            IF session'[g].made /\ g # d
            THEN f[g] \in PortalFile /\ session'[g].given = TextOf[f[g]] /\ session'[g].conns
            ELSE f[g] = None
      BY <1>1, <2>1, <3>2, ZenonT(40) DEF Describes
    <3>4. \A e \in Dev :
            IF file'[e].made /\ e # d THEN f[e] = file'[e].host /\ f[e] # d ELSE f[e] = None
      BY <1>1, <2>3, Zenon DEF Describes
    <3> QED BY <2>4, <3>1, <3>3, <3>4, Zenon DEF Describes
  <2>11. CommandOK(adm[a])'
    BY <1>1, <2>1, <2>3, <2>4, <2>10, ZenonT(40) DEF CommandOK, Reads, NewFile
  <2> QED BY <2>5, <2>6, <2>8, <2>11, OneCommand, ZenonT(40)
<1>4. h \in Hosts
  BY <1>1 DEF Hosts
<1> QED BY <1>2, <1>3, <1>4, Zenon DEF MkDev, h, d, f

(* The next registration of the backup disk finds a number. *)
LEMMA NumberToBeHad ==
    ASSUME Shape, major_num \notin held, Cardinality(held) < MaxMajors
    PROVE  /\ MajorFree /\ TakenMajor \in 1 .. MaxMajors
           /\ ReturnedMajor \in 0 .. MaxMajors
<1>1. MaxMajors \in Nat /\ major_num \in 0 .. MaxMajors /\ held \subseteq 1 .. MaxMajors
  BY LifeCycleAssumption DEF Shape
<1>2. FreeMajors \in SUBSET (0 .. MaxMajors) /\ FreeMajors \subseteq 1 .. MaxMajors
  BY <1>1 DEF FreeMajors
<1>3. FreeMajors # {}
  <2>1. Cardinality(1 .. MaxMajors) = MaxMajors
    BY <1>1, FS_Interval
  <2>2. held # 1 .. MaxMajors
    BY <1>1, <2>1
  <2> QED BY <1>1, <2>2, Zenon DEF FreeMajors
<1>4. Max(FreeMajors) \in FreeMajors
  BY <1>1, <1>2, <1>3, MaxIsMember, Zenon
<1>5. major_num # 0 => major_num \in FreeMajors
  BY <1>1 DEF FreeMajors
<1> HIDE DEF FreeMajors
<1>6. CASE major_num = 0
  <2>1. MajorFree /\ TakenMajor = Max(FreeMajors) /\ ReturnedMajor = TakenMajor
    BY <1>3, <1>6, Zenon DEF MajorFree, TakenMajor, ReturnedMajor
  <2>2. Max(FreeMajors) \in 1 .. MaxMajors
    BY <1>2, <1>4, Zenon
  <2>3. 1 .. MaxMajors \subseteq 0 .. MaxMajors
    BY <1>1
  <2> QED BY <2>1, <2>2, <2>3, Zenon
<1>7. CASE major_num # 0
  <2>1. MajorFree /\ TakenMajor = major_num /\ ReturnedMajor = 0
    BY <1>5, <1>7, Zenon DEF MajorFree, TakenMajor, ReturnedMajor
  <2>2. major_num \in 1 .. MaxMajors
    BY <1>2, <1>5, <1>7, Zenon
  <2> QED BY <1>1, <2>1, <2>2
<1> QED BY <1>6, <1>7, Zenon

(* What IS_create_device leaves: a device that runs, or one that has no    *)
(* disk and is removed next.                                               *)
LEMMA DeviceWritten ==
    ASSUME Tested, IInv, NEW h \in Host, NEW d \in Dev, NEW ok \in BOOLEAN,
           file[d] = NewFile(h), session[h].made, session[h].conns,
           Cardinality(held) < MaxMajors, ~IS_file_find(d, d), device_attr_store(d, ok)
    PROVE  /\ file' \in [Dev -> {NoFile} \cup FileRec]
           /\ file'[d].made /\ file'[d].host = h
           /\ \A e \in Dev : e # d => file'[e] = file[e]
           /\ UNCHANGED <<up, loaded, session, trigger, NUM_CB>>
           /\ stackbd' \in [is_active : BOOLEAN, thread : BOOLEAN, gd : BOOLEAN]
           /\ major_num' \in 0 .. MaxMajors /\ held' \subseteq 1 .. MaxMajors
           /\ DevicesOK'
<1>0. Shape /\ DevicesOK
  BY Zenon DEF IInv
<1>1. NewFile(h) \in FileRec /\ NewFile(h).made /\ NewFile(h).host = h
      /\ NewFile(h).disk = "null" /\ NewFile(h).state = "OPENNING"
  BY Zenon DEF NewFile, FileRec
<1>2. \A e \in Dev : file[e].made => e = d
  BY <1>0, <1>1 DEF DevicesOK
<1>3. /\ ~stackbd.thread /\ ~stackbd.gd /\ major_num \notin held
  BY <1>0, <1>1, <1>2, ZenonT(40) DEF DevicesOK
<1>4. /\ MajorFree /\ TakenMajor \in 1 .. MaxMajors /\ ReturnedMajor \in 0 .. MaxMajors
  BY <1>0, <1>3, NumberToBeHad, Zenon
<1>5. PICK f \in {"queues", "mq", "disk", "ok"} :
         ok = Returns0(Outcome(f)) /\ IS_create_device(d, Outcome(f))
  <2>1. PICK f \in (CreateFaults \cap Faults) \cup {"ok"} :
          /\ ok = Returns0(Outcome(f))
          /\ IF session[file[d].host].conns THEN IS_create_device(d, Outcome(f)) ELSE Oops
    BY Zenon DEF device_attr_store
  <2>2. f \in {"queues", "mq", "disk", "ok"}
    BY DEF Tested, CreateFaults
  <2> QED BY <1>1, <2>1, <2>2, ZenonT(40)
<1>6. Outcome(f) = f
  BY <1>4 DEF Outcome
<1> DEFINE q == IF f = "queues" THEN "null" ELSE IF f = "ok" THEN "live" ELSE "freed"
           k == IF f = "ok" THEN "added" ELSE "null"
           s == IF f = "ok" THEN "RUNNING" ELSE "OPENNING"
           r == [file[d] EXCEPT !.file_name = d, !.queues = q, !.disk = k, !.state = s,
                                !.waking = (f = "ok")]
<1>7. Returns0(f) = (f = "ok") /\ DiskAfter(f) = k
  BY DEF Returns0, DiskAfter
<1>8. /\ file' = [file EXCEPT ![d] = r]
      /\ UNCHANGED <<up, loaded, session, trigger, NUM_CB>> /\ IS_register_block_device(f)
  BY <1>0, <1>1, <1>5, <1>6, <1>7, ZenonT(40) DEF IS_create_device, Shape
<1>9. /\ r \in FileRec /\ r.made /\ r.host = h /\ r.disk = k /\ r.state = s /\ r.queues = q
  <2> HIDE DEF k, s, q
  <2>1. k \in {"null", "added"} /\ s \in {"OPENNING", "RUNNING"}
        /\ q \in {"null", "freed", "live"}
    BY Zenon DEF k, s, q
  <2> QED BY <1>1, <2>1, ZenonT(40) DEF FileRec
<1> HIDE DEF r
<1>10. /\ file' \in [Dev -> {NoFile} \cup FileRec]
       /\ \A e \in Dev : file'[e] = IF e = d THEN r ELSE file[e]
  BY <1>0, <1>8, <1>9, Zenon DEF Shape
<1>11. CASE f = "ok"
  <2>1. /\ major_num' = ReturnedMajor /\ held' = held \cup {TakenMajor}
        /\ stackbd' = stackbd_start(f)
    BY <1>8, <1>11 DEF IS_register_block_device
  <2>2. stackbd' = [is_active |-> TRUE, thread |-> TRUE, gd |-> TRUE]
    BY <1>11, <2>1, Zenon DEF stackbd_start
  <2>3. stackbd' \in [is_active : BOOLEAN, thread : BOOLEAN, gd : BOOLEAN]
    BY <2>2, Zenon
  <2>4. major_num' \in 0 .. MaxMajors /\ held' \subseteq 1 .. MaxMajors
    BY <1>0, <1>4, <2>1, Zenon DEF Shape
  <2>5. r.disk = "added" /\ r.state = "RUNNING" /\ r.queues = "live"
    BY <1>9, <1>11, Zenon
  <2>6. DevicesOK'
    BY <1>2, <1>8, <1>9, <1>10, <2>2, <2>5, ZenonT(40) DEF DevicesOK
  <2> QED BY <1>8, <1>9, <1>10, <2>3, <2>4, <2>6, ZenonT(40)
<1>12. CASE f # "ok"
  <2>1. UNCHANGED <<stackbd, major_num, held>>
    BY <1>8, <1>12, Zenon DEF IS_register_block_device
  <2>2. r.disk = "null" /\ r.state = "OPENNING"
    BY <1>9, <1>12, Zenon
  <2>3. DevicesOK'
    BY <1>2, <1>3, <1>8, <1>9, <1>10, <2>1, <2>2, ZenonT(40) DEF DevicesOK
  <2> QED BY <1>0, <1>8, <1>9, <1>10, <2>1, <2>3, ZenonT(40) DEF Shape
<1> QED BY <1>11, <1>12, Zenon

LEMMA WriteDeviceOK ==
    ASSUME Tested, IInv, NEW a \in Adm, WriteDevice(a) PROVE IInv'
<1> DEFINE h == adm[a].host
           d == adm[a].dev
           f == adm[a].parser
<1>0. /\ adm[a].pc = "device" /\ Shape /\ CommandOK(adm[a]) /\ ini' = ini
      /\ adm[a] \in CommandRec
  BY Zenon DEF WriteDevice, At, IInv, Shape
<1>1. /\ Describes(f, d) /\ ini = f /\ h \in Host /\ d \in Dev /\ session[h].made
      /\ Cardinality(held) < MaxMajors /\ file[d] = NewFile(h)
  BY <1>0, Zenon DEF CommandOK, AtWork, Reads
<1>d. d \notin Host /\ None \notin Host \cup Dev /\ d \in Section
  BY <1>1, LifeCycleAssumption, Zenon DEF Section
<1>c. session[h].conns
  BY <1>1, <1>d, Zenon DEF Describes
<1>2. PICK ok \in BOOLEAN :
         /\ device_attr_store(d, ok)
         /\ IF ok THEN adm' = [adm EXCEPT ![a].pc = "sleep", ![a].parser[d] = h]
                  ELSE Go(a, "undev")
  BY Zenon DEF WriteDevice
<1> HIDE DEF h, d, f
<1>n. NewFile(h).made /\ NewFile(h).host = h
  BY DEF NewFile
<1>3. CASE IS_file_find(d, d)
  <2>1. ~ok /\ UNCHANGED lifeVars
    BY <1>2, <1>3, Zenon DEF device_attr_store
  <2>2. /\ adm' \in [Adm -> CommandRec]
        /\ adm'[a].pc = "undev" /\ adm'[a].host = h /\ adm'[a].dev = d
        /\ adm'[a].portal = adm[a].portal /\ adm'[a].parser = f
    BY <1>0, <1>2, <2>1, Goes, ZenonT(40) DEF h, d, f
  <2>3. up' /\ Shape' /\ ThreadsOK' /\ DevicesOK' /\ PortalsDistinct'
    BY <1>0, <2>1, <2>2, SameLife, ZenonT(40) DEF Shape
  <2>4. Describes(adm[a].parser, AtWork(adm[a]))'
    <3>1. AtWork(adm[a])' = d
      BY <2>2, Zenon DEF AtWork
    <3> QED BY <1>1, <2>1, <2>2, <3>1, ZenonT(40) DEF Describes, lifeVars
  <2>5. CommandOK(adm[a])'
    BY <1>0, <1>1, <1>n, <2>1, <2>2, <2>4, Zenon DEF CommandOK, Reads, lifeVars
  <2> QED BY <2>3, <2>5, OneCommand, ZenonT(40)
<1>4. CASE ~IS_file_find(d, d)
  <2>1. /\ file' \in [Dev -> {NoFile} \cup FileRec]
        /\ file'[d].made /\ file'[d].host = h
        /\ \A e \in Dev : e # d => file'[e] = file[e]
        /\ UNCHANGED <<up, loaded, session, trigger, NUM_CB>>
        /\ stackbd' \in [is_active : BOOLEAN, thread : BOOLEAN, gd : BOOLEAN]
        /\ major_num' \in 0 .. MaxMajors /\ held' \subseteq 1 .. MaxMajors
        /\ DevicesOK'
    BY <1>1, <1>2, <1>4, <1>c, DeviceWritten, ZenonT(40)
  <2>2. ThreadsOK' /\ PortalsDistinct'
    BY <2>1, Zenon DEF IInv, ThreadsOK, PortalsDistinct, Hosts
  <2>3. \A g \in Host :
          IF session'[g].made
          THEN f[g] \in PortalFile /\ session'[g].given = TextOf[f[g]] /\ session'[g].conns
          ELSE f[g] = None
    BY <1>1, <1>d, <2>1, ZenonT(40) DEF Describes
  <2>4. \A e \in Dev : e # d =>
          IF file'[e].made THEN f[e] = file'[e].host /\ f[e] # d ELSE f[e] = None
    BY <1>1, <2>1, ZenonT(40) DEF Describes
  <2>5. f[d] = None
    BY <1>1, Zenon DEF Describes
  <2>8. CASE ~ok
    <3>2. /\ adm' \in [Adm -> CommandRec]
          /\ adm'[a].pc = "undev" /\ adm'[a].host = h /\ adm'[a].dev = d
          /\ adm'[a].parser = f
      BY <1>0, <1>2, <2>8, Goes, ZenonT(40) DEF h, d, f
    <3>3. up' /\ Shape'
      BY <1>0, <2>1, <3>2, ZenonT(40) DEF IInv, Shape
    <3>4. Describes(adm[a].parser, AtWork(adm[a]))'
      <4>1. AtWork(adm[a])' = d
        BY <3>2, Zenon DEF AtWork
      <4> QED BY <1>d, <2>3, <2>4, <2>5, <3>2, <4>1, ZenonT(40) DEF Describes
    <3>5. CommandOK(adm[a])'
      <4>1. file'[d].made /\ ini' = f
        BY <1>0, <1>1, <2>1, ZenonT(40)
      <4> QED BY <1>1, <3>2, <3>4, <4>1, ZenonT(40) DEF CommandOK, Reads
    <3> QED BY <2>1, <2>2, <3>3, <3>5, OneCommand, ZenonT(40)
  <2>9. CASE ok
    <3>1. adm' = [adm EXCEPT ![a] = [adm[a] EXCEPT !.pc = "sleep",
                                         !.parser = [adm[a].parser EXCEPT ![d] = h]]]
      BY <1>0, <1>2, <2>9, Zenon DEF Shape, CommandRec
    <3>2. /\ adm' \in [Adm -> CommandRec]
          /\ adm'[a].pc = "sleep" /\ adm'[a].host = h /\ adm'[a].dev = d
          /\ \A x \in Section : adm'[a].parser[x] = IF x = d THEN h ELSE f[x]
      BY <1>0, <1>1, <1>d, <3>1, Writes, ZenonT(40) DEF h, d, f
    <3>3. up' /\ Shape'
      BY <1>0, <2>1, <3>2, ZenonT(40) DEF IInv, Shape
    <3>4. Describes(adm[a].parser, AtWork(adm[a]))'
      <4>1. AtWork(adm[a])' = None
        BY <3>2, Zenon DEF AtWork
      <4>2. /\ \A g \in Host : adm'[a].parser[g] = f[g]
            /\ \A e \in Dev : adm'[a].parser[e] = IF e = d THEN h ELSE f[e]
        BY <1>d, <3>2, Zenon DEF Section
      <4>3. \A e \in Dev :
              IF file'[e].made THEN adm'[a].parser[e] = file'[e].host /\ adm'[a].parser[e] # None
              ELSE adm'[a].parser[e] = None
        <5>1. \A e \in Dev : file'[e].made => file'[e].host \in Host
          BY <2>1, MadeFile, Zenon
        <5> QED BY <1>d, <2>1, <2>4, <4>2, <5>1
      <4> QED BY <1>d, <2>3, <4>1, <4>2, <4>3, ZenonT(40) DEF Describes
    <3>5. CommandOK(adm[a])'
      <4>1. file'[d].made /\ session'[file'[d].host].made
        BY <1>1, <2>1, Zenon
      <4> QED BY <1>1, <3>2, <3>4, <4>1, ZenonT(40) DEF CommandOK, Reads
    <3> QED BY <2>1, <2>2, <3>3, <3>5, OneCommand
  <2> QED BY <2>8, <2>9, Zenon
<1> QED BY <1>3, <1>4, Zenon

LEMMA WakeTriggerOK ==
    ASSUME Tested, IInv, NEW a \in Adm, WakeTrigger(a) PROVE IInv'
<1> DEFINE d == adm[a].dev
           h == file[d].host
           f == adm[a].parser
           r == [file[d] EXCEPT !.waking = FALSE]
<1>0. /\ adm[a].pc = "sleep" /\ Shape /\ CommandOK(adm[a]) /\ UNCHANGED <<ini, IS_indexes>>
      /\ adm[a] \in CommandRec /\ Go(a, "save")
  BY Zenon DEF WakeTrigger, At, IInv, Shape
<1>1. Describes(f, None) /\ d \in Dev /\ file[d].made /\ session[h].made
  BY <1>0, ZenonT(40) DEF CommandOK, AtWork, Reads
<1>2. file[d] \in FileRec /\ h \in Host
  BY <1>0, <1>1, Made, Zenon
<1>3. /\ file' = [file EXCEPT ![d] = r]
      /\ trigger' = [trigger EXCEPT ![h] = IF trigger[h] = "created" THEN "awake"
                                           ELSE trigger[h]]
      /\ UNCHANGED <<up, loaded, session, NUM_CB, stackbd, major_num, held>>
  BY <1>0, <1>1, <1>2, ZenonT(40) DEF WakeTrigger, wake_up_process, Shape
<1>4. /\ r \in FileRec /\ r.made /\ r.host = h /\ r.disk = file[d].disk
      /\ r.state = file[d].state /\ r.queues = file[d].queues
  BY <1>2, ZenonT(40) DEF FileRec
<1> HIDE DEF r
<1> HIDE DEF d, h, f
<1>5. /\ file' \in [Dev -> {NoFile} \cup FileRec]
      /\ \A e \in Dev : file'[e] = IF e = d THEN r ELSE file[e]
  BY <1>0, <1>1, <1>3, <1>4, Zenon DEF Shape
<1>6. /\ trigger' \in [Host -> {"null", "created", "awake", "running"}]
      /\ \A g \in Host : trigger'[g] # "null" => trigger[g] # "null"
  BY <1>0, <1>3, ZenonT(40) DEF Shape
<1>7. /\ adm' \in [Adm -> CommandRec] /\ adm'[a].pc = "save" /\ adm'[a].parser = f
  BY <1>0, Goes, Zenon DEF d, h, f
<1>8. up' /\ Shape'
  BY <1>0, <1>3, <1>5, <1>6, <1>7, ZenonT(40) DEF IInv, Shape
<1>9. ThreadsOK' /\ PortalsDistinct'
  BY <1>3, <1>6, ZenonT(40) DEF IInv, ThreadsOK, PortalsDistinct, Hosts
<1>10. DevicesOK'
  <2>1. \A e \in Dev : /\ file'[e].made <=> file[e].made
                       /\ file[e].made => /\ file'[e].host = file[e].host
                                          /\ file'[e].disk = file[e].disk
                                          /\ file'[e].state = file[e].state
                                          /\ file'[e].queues = file[e].queues
    BY <1>1, <1>4, <1>5, Zenon DEF d, h, f
  <2> QED BY <1>3, <2>1 DEF IInv, DevicesOK
<1>11. Describes(adm[a].parser, AtWork(adm[a]))'
  <2>1. AtWork(adm[a])' = None
    BY <1>7, Zenon DEF AtWork
  <2>2. \A e \in Dev : /\ file'[e].made <=> file[e].made
                       /\ file[e].made => file'[e].host = file[e].host
    BY <1>1, <1>4, <1>5, ZenonT(40) DEF d, h, f
  <2> QED BY <1>1, <1>3, <1>7, <2>1, <2>2, ZenonT(40) DEF Describes
<1>12. CommandOK(adm[a])'
  BY <1>7, <1>11, Zenon DEF CommandOK, Reads
<1> QED BY <1>8, <1>9, <1>10, <1>12, OneCommand

(* The removal of the device: everything it releases is there, and the     *)
(* backup disk goes with it.                                               *)
LEMMA DropOK ==
    ASSUME IInv, NEW d \in Dev, file[d].made, IS_device_drop(d)
    PROVE  /\ file' \in [Dev -> {NoFile} \cup FileRec] /\ \A e \in Dev : ~file'[e].made
           /\ UNCHANGED <<up, loaded, session, trigger, NUM_CB, major_num>>
           /\ stackbd' \in [is_active : BOOLEAN, thread : BOOLEAN, gd : BOOLEAN]
           /\ held' \subseteq 1 .. MaxMajors
           /\ ThreadsOK' /\ DevicesOK' /\ PortalsDistinct'
<1>0. Shape /\ DevicesOK /\ file[d] \in FileRec
  BY Made, Zenon DEF IInv
<1>1. \A e \in Dev : file[e].made => e = d
  BY <1>0, Zenon DEF DevicesOK
<1>2. file[d].disk # "null" =>
        /\ file[d].disk = "added" /\ file[d].queues = "live"
        /\ stackbd = [is_active |-> TRUE, thread |-> TRUE, gd |-> TRUE]
  BY <1>0, Zenon DEF DevicesOK, FileRec
<1>3. Releasable(d)
  BY <1>2 DEF Releasable
<1>4. /\ IS_destroy_device(d) /\ file' = [file EXCEPT ![d] = NoFile]
      /\ UNCHANGED <<up, loaded, session, trigger, NUM_CB, major_num>>
  BY <1>3, Zenon DEF IS_device_drop
<1>5. /\ file' \in [Dev -> {NoFile} \cup FileRec] /\ \A e \in Dev : ~file'[e].made
  <2>1. ~NoFile.made
    BY Zenon DEF NoFile
  <2>2. \A e \in Dev : file'[e] = IF e = d THEN NoFile ELSE file[e]
    BY <1>0, <1>4, Zenon DEF Shape
  <2>3. file' \in [Dev -> {NoFile} \cup FileRec]
    BY <1>0, <1>4, Zenon DEF Shape
  <2> QED BY <1>1, <2>1, <2>2, <2>3, ZenonT(40)
<1>6. /\ stackbd' \in [is_active : BOOLEAN, thread : BOOLEAN, gd : BOOLEAN]
      /\ held' \subseteq 1 .. MaxMajors
      /\ ~stackbd'.thread /\ ~stackbd'.gd /\ major_num' \notin held'
  <2>1. CASE file[d].disk = "null"
    <3>1. UNCHANGED <<stackbd, held>>
      BY <1>4, <2>1, ZenonT(40) DEF IS_destroy_device
    <3>2. ~stackbd.thread /\ ~stackbd.gd /\ major_num \notin held
      BY <1>0, <1>1, <2>1, ZenonT(40) DEF DevicesOK
    <3> QED BY <1>0, <1>4, <3>1, <3>2, ZenonT(40) DEF Shape
  <2>2. CASE file[d].disk # "null"
    <3>1. /\ stackbd' = [stackbd EXCEPT !.thread = FALSE, !.gd = FALSE]
          /\ held' = held \ {major_num}
      BY <1>4, <2>2, Zenon DEF IS_destroy_device, IS_unregister_block_device
    <3>2. stackbd \in [is_active : BOOLEAN, thread : BOOLEAN, gd : BOOLEAN]
      BY <1>0, Zenon DEF Shape
    <3>3. /\ stackbd' \in [is_active : BOOLEAN, thread : BOOLEAN, gd : BOOLEAN]
          /\ ~stackbd'.thread /\ ~stackbd'.gd
      BY <3>1, <3>2, ZenonT(40)
    <3> QED BY <1>0, <1>4, <3>1, <3>3, ZenonT(40) DEF Shape
  <2> QED BY <2>1, <2>2, Zenon
<1>7. DevicesOK'
  BY <1>5, <1>6, Zenon DEF DevicesOK
<1>8. ThreadsOK' /\ PortalsDistinct'
  BY <1>4, Zenon DEF IInv, ThreadsOK, PortalsDistinct, Hosts
<1> QED BY <1>4, <1>5, <1>6, <1>7, <1>8, ZenonT(40)

LEMMA RmDevOK ==
    ASSUME Tested, IInv, NEW a \in Adm, RmDev(a) PROVE IInv'
<1> DEFINE d == adm[a].dev
           f == adm[a].parser
<1>0. /\ adm[a].pc \in {"rmdev", "undev"} /\ Shape /\ CommandOK(adm[a]) /\ ini' = ini
      /\ adm[a] \in CommandRec
  BY DEF RmDev, At, IInv, Shape
<1>1. /\ d \in Dev /\ file[d].made /\ ini = f
      /\ Describes(f, IF adm[a].pc = "undev" THEN d ELSE None)
  BY <1>0, ZenonT(40) DEF CommandOK, AtWork, Reads
<1>d. d \notin Host /\ None \notin Host \cup Dev /\ d \in Section
  BY <1>1, LifeCycleAssumption, Zenon DEF Section
<1>2. /\ IS_device_drop(d)
      /\ IF adm[a].pc = "undev" THEN Exit(a)
         ELSE adm' = [adm EXCEPT ![a].pc = "save", ![a].parser[d] = None]
  BY <1>1, Zenon DEF RmDev, Devs
<1> HIDE DEF d, f
<1>3. /\ file' \in [Dev -> {NoFile} \cup FileRec] /\ \A e \in Dev : ~file'[e].made
      /\ UNCHANGED <<up, loaded, session, trigger, NUM_CB, major_num>>
      /\ stackbd' \in [is_active : BOOLEAN, thread : BOOLEAN, gd : BOOLEAN]
      /\ held' \subseteq 1 .. MaxMajors
      /\ ThreadsOK' /\ DevicesOK' /\ PortalsDistinct'
  BY <1>1, <1>2, DropOK, ZenonT(40)
<1>4. \A g \in Host :
        IF session'[g].made
        THEN f[g] \in PortalFile /\ session'[g].given = TextOf[f[g]] /\ session'[g].conns
        ELSE f[g] = None
  BY <1>1, <1>3, <1>d, ZenonT(40) DEF Describes
<1>5. \A e \in Dev : e # d => f[e] = None
  <2>1. \A e \in Dev : e # d => ~file[e].made
    BY <1>1, ZenonT(40) DEF IInv, DevicesOK
  <2> QED BY <1>1, <2>1, Zenon DEF Describes
<1>6. CASE adm[a].pc = "undev"
  <2>1. adm'[a].pc = "idle" /\ adm' \in [Adm -> CommandRec]
    BY <1>0, <1>2, <1>6, Exits, ZenonT(40)
  <2>2. up' /\ Shape'
    BY <1>0, <1>3, <2>1, ZenonT(40) DEF IInv, Shape
  <2>3. f[d] = None
    BY <1>1, <1>6, Zenon DEF Describes
  <2>4. Describes(ini, None)'
    BY <1>0, <1>1, <1>d, <1>3, <1>4, <1>5, <2>3, ZenonT(40) DEF Describes
  <2>5. CommandOK(adm[a])'
    BY <2>1, <2>4, ZenonT(40) DEF CommandOK, Reads
  <2> QED BY <1>3, <2>2, <2>5, OneCommand, ZenonT(40)
<1>7. CASE adm[a].pc = "rmdev"
  <2>1. adm' = [adm EXCEPT ![a] = [adm[a] EXCEPT !.pc = "save",
                                       !.parser = [adm[a].parser EXCEPT ![d] = None]]]
    BY <1>0, <1>2, <1>7, Zenon DEF Shape, CommandRec
  <2>2. /\ adm' \in [Adm -> CommandRec] /\ adm'[a].pc = "save"
        /\ \A x \in Section : adm'[a].parser[x] = IF x = d THEN None ELSE f[x]
    BY <1>0, <1>1, <1>d, <2>1, Writes, ZenonT(40) DEF d, f
  <2>3. up' /\ Shape'
    BY <1>0, <1>3, <2>2, ZenonT(40) DEF IInv, Shape
  <2>4. Describes(adm[a].parser, AtWork(adm[a]))'
    <3>1. AtWork(adm[a])' = None
      BY <2>2, Zenon DEF AtWork
    <3>2. /\ \A g \in Host : adm'[a].parser[g] = f[g]
          /\ \A e \in Dev : adm'[a].parser[e] = None
      BY <1>d, <1>5, <2>2, ZenonT(40) DEF Section
    <3> QED BY <1>d, <1>3, <1>4, <3>1, <3>2, ZenonT(40) DEF Describes
  <2>5. CommandOK(adm[a])'
    BY <2>2, <2>4, Zenon DEF CommandOK, Reads
  <2> QED BY <1>3, <2>3, <2>5, OneCommand
<1> QED BY <1>0, <1>6, <1>7, ZenonT(40)

(* The removal of a host that has no device. *)
LEMMA SessionDropped ==
    ASSUME IInv, NEW h \in Host, session[h].made, trigger[h] \in {"null", "created"},
           \A d \in Dev : file[d].made => file[d].host # h, IS_session_drop(h)
    PROVE  /\ session' \in [Host -> {NoSession} \cup SessionRec]
           /\ ~session'[h].made /\ \A g \in Host : g # h => session'[g] = session[g]
           /\ trigger' \in [Host -> {"null", "created", "awake", "running"}]
           /\ UNCHANGED <<up, loaded, file, NUM_CB, stackbd, major_num, held>>
           /\ ThreadsOK' /\ DevicesOK' /\ PortalsDistinct'
<1>0. Shape
  BY Zenon DEF IInv
<1>1. /\ session' = [session EXCEPT ![h] = NoSession]
      /\ UNCHANGED <<up, loaded, file, NUM_CB, stackbd, major_num, held>>
  BY Zenon DEF IS_session_drop
<1>2. /\ trigger' \in [Host -> {"null", "created", "awake", "running"}]
      /\ \A g \in Host : trigger'[g] = IF g = h THEN "null" ELSE trigger[g]
  BY <1>0, Zenon DEF IS_session_drop, Shape
<1>3. ~NoSession.made
  BY Zenon DEF NoSession
<1>4. /\ session' \in [Host -> {NoSession} \cup SessionRec]
      /\ session'[h] = NoSession /\ \A g \in Host : g # h => session'[g] = session[g]
  BY <1>0, <1>1, ZenonT(40) DEF Shape
<1>5. ThreadsOK'
  BY <1>1, <1>2, <1>3, <1>4, ZenonT(40) DEF IInv, ThreadsOK
<1>6. DevicesOK'
  <2>1. \A d \in Dev : file[d].made => session'[file[d].host] = session[file[d].host]
    BY <1>0, <1>4, Made
  <2> QED BY <1>1, <2>1, ZenonT(40) DEF IInv, DevicesOK
<1>7. PortalsDistinct'
  BY <1>3, <1>4 DEF IInv, PortalsDistinct, Hosts
<1> QED BY <1>1, <1>2, <1>3, <1>4, <1>5, <1>6, <1>7, ZenonT(40)

LEMMA RmHostOK ==
    ASSUME Tested, IInv, NEW a \in Adm, RmHost(a) PROVE IInv'
<1> DEFINE h == adm[a].host
           f == adm[a].parser
           ds == get_host_devices(h, f)
<1>0. /\ adm[a].pc \in {"rmhost", "unhost"} /\ Shape /\ CommandOK(adm[a]) /\ ini' = ini
      /\ adm[a] \in CommandRec
  BY Zenon DEF RmHost, At, IInv, Shape
<1>1. /\ h \in Host /\ session[h].made
      /\ Describes(f, IF adm[a].pc = "unhost" THEN h ELSE None)
      /\ adm[a].pc = "unhost" => ini = f
      /\ trigger[h] \in {"null", "created"}
  <2>1. trigger[h] \in {"null", "created"}
    BY <1>0, ZenonT(40) DEF CommandOK, Shape
  <2>2. h \in Host /\ session[h].made /\ (adm[a].pc = "unhost" => ini = f)
    BY <1>0, ZenonT(40) DEF CommandOK, Reads
  <2>3. Describes(f, IF adm[a].pc = "unhost" THEN h ELSE None)
    BY <1>0, ZenonT(40) DEF CommandOK, AtWork
  <2> QED BY <2>1, <2>2, <2>3, ZenonT(40)
<1>d. h \notin Dev /\ None \notin Host \cup Dev /\ h \in Section
  BY <1>1, LifeCycleAssumption, Zenon DEF Section
<1> HIDE DEF h, f
<1>2. CASE adm[a].pc = "rmhost" /\ ds # {}
  <2>1. PICK d \in ds :
           IF d \in Devs
           THEN /\ IS_device_drop(d)
                /\ adm' = [adm EXCEPT ![a].parser[d] = None]
           ELSE Exit(a) /\ UNCHANGED lifeVars
    BY <1>2, Zenon DEF RmHost, h, f
  <2>2. d \in Dev /\ f[d] = h /\ d \notin Host /\ d \in Section
    BY <2>1, LifeCycleAssumption, ZenonT(40) DEF get_host_devices, Section
  <2>3. file[d].made
    BY <1>1, <1>2, <1>d, <2>2, ZenonT(40) DEF Describes
  <2>4. IS_device_drop(d) /\ adm' = [adm EXCEPT ![a].parser[d] = None]
    BY <2>1, <2>2, <2>3, ZenonT(40) DEF Devs
  <2>5. /\ file' \in [Dev -> {NoFile} \cup FileRec] /\ \A e \in Dev : ~file'[e].made
        /\ UNCHANGED <<up, loaded, session, trigger, NUM_CB, major_num>>
        /\ stackbd' \in [is_active : BOOLEAN, thread : BOOLEAN, gd : BOOLEAN]
        /\ held' \subseteq 1 .. MaxMajors
        /\ ThreadsOK' /\ DevicesOK' /\ PortalsDistinct'
    BY <2>2, <2>3, <2>4, DropOK, ZenonT(40)
  <2>6. adm' = [adm EXCEPT ![a] = [adm[a] EXCEPT !.pc = "rmhost",
                                       !.parser = [adm[a].parser EXCEPT ![d] = None]]]
    BY <1>0, <1>2, <2>4, Zenon DEF Shape, CommandRec
  <2>7. /\ adm' \in [Adm -> CommandRec] /\ adm'[a].pc = "rmhost" /\ adm'[a].host = h
        /\ \A x \in Section : adm'[a].parser[x] = IF x = d THEN None ELSE f[x]
    BY <1>0, <2>2, <2>6, Writes, ZenonT(40) DEF h, f
  <2>8. up' /\ Shape'
    BY <1>0, <2>5, <2>7, ZenonT(40) DEF IInv, Shape
  <2>9. Describes(adm[a].parser, AtWork(adm[a]))'
    <3>1. AtWork(adm[a])' = None
      BY <2>7, Zenon DEF AtWork
    <3>2. \A e \in Dev : e # d => f[e] = None
      <4>1. \A e \in Dev : e # d => ~file[e].made
        BY <2>2, <2>3, ZenonT(40) DEF IInv, DevicesOK
      <4> QED BY <1>1, <1>2, <4>1, ZenonT(40) DEF Describes
    <3>3. /\ \A g \in Host : adm'[a].parser[g] = f[g]
          /\ \A e \in Dev : adm'[a].parser[e] = None
      BY <2>2, <2>7, <3>2, ZenonT(40) DEF Section
    <3>4. \A g \in Host :
            IF session'[g].made
            THEN f[g] \in PortalFile /\ session'[g].given = TextOf[f[g]] /\ session'[g].conns
            ELSE f[g] = None
      BY <1>1, <1>2, <1>d, <2>5, ZenonT(40) DEF Describes
    <3> QED BY <1>d, <2>5, <3>1, <3>3, <3>4, ZenonT(40) DEF Describes
  <2>10. CommandOK(adm[a])'
    <3>1. session'[h].made /\ trigger'[h] \notin {"awake", "running"}
      BY <1>1, <2>5, ZenonT(40)
    <3> QED BY <1>1, <2>7, <2>9, <3>1, ZenonT(40) DEF CommandOK, Reads
  <2> QED BY <2>5, <2>8, <2>10, OneCommand, ZenonT(40)
<1>3. CASE ~(adm[a].pc = "rmhost" /\ ds # {})
  <2>1. \A e \in Dev : file[e].made => file[e].host # h
    <3>1. CASE adm[a].pc = "unhost"
      BY <1>1, <1>d, <3>1, ZenonT(40) DEF Describes
    <3>2. CASE adm[a].pc = "rmhost"
      BY <1>1, <1>3, <1>d, <3>2 DEF Describes, get_host_devices
    <3> QED BY <1>0, <3>1, <3>2, ZenonT(40)
  <2>2. /\ IS_session_drop(h)
        /\ IF adm[a].pc = "unhost" THEN Exit(a)
           ELSE adm' = [adm EXCEPT ![a].pc = "save", ![a].parser[h] = None]
    <3>1. h \in Hosts /\ \A d \in Devs : file[d].host # h
      BY <1>1, <2>1, ZenonT(40) DEF Hosts, Devs
    <3> QED BY <1>3, <3>1, Zenon DEF RmHost, h, f
  <2>3. /\ session' \in [Host -> {NoSession} \cup SessionRec]
        /\ ~session'[h].made /\ \A g \in Host : g # h => session'[g] = session[g]
        /\ trigger' \in [Host -> {"null", "created", "awake", "running"}]
        /\ UNCHANGED <<up, loaded, file, NUM_CB, stackbd, major_num, held>>
        /\ ThreadsOK' /\ DevicesOK' /\ PortalsDistinct'
    BY <1>1, <2>1, <2>2, SessionDropped, ZenonT(40)
  <2>4. \A g \in Host : g # h =>
          IF session'[g].made
          THEN f[g] \in PortalFile /\ session'[g].given = TextOf[f[g]] /\ session'[g].conns
          ELSE f[g] = None
    BY <1>1, <1>d, <2>3 DEF Describes
  <2>5. \A e \in Dev : IF file'[e].made THEN f[e] = file'[e].host /\ f[e] # None
                       ELSE f[e] = None
    <3>1. \A e \in Dev : file[e].made => file[e].host # None
      BY <1>0, <1>d, Made, ZenonT(40)
    <3> QED BY <1>1, <1>d, <2>3, <3>1, ZenonT(40) DEF Describes
  <2>6. CASE adm[a].pc = "unhost"
    <3>1. adm'[a].pc = "idle" /\ adm' \in [Adm -> CommandRec]
      BY <1>0, <2>2, <2>6, Exits, ZenonT(40)
    <3>2. up' /\ Shape'
      BY <1>0, <2>3, <3>1, ZenonT(40) DEF IInv, Shape
    <3>3. f[h] = None
      BY <1>1, <2>6, Zenon DEF Describes
    <3>4. Describes(ini, None)'
      BY <1>0, <1>1, <1>d, <2>3, <2>4, <2>5, <2>6, <3>3, ZenonT(40) DEF Describes
    <3>5. CommandOK(adm[a])'
      BY <3>1, <3>4 DEF CommandOK, Reads
    <3> QED BY <2>3, <3>2, <3>5, OneCommand, Zenon
  <2>7. CASE adm[a].pc = "rmhost"
    <3>1. adm' = [adm EXCEPT ![a] = [adm[a] EXCEPT !.pc = "save",
                                         !.parser = [adm[a].parser EXCEPT ![h] = None]]]
      BY <1>0, <2>2, <2>7, Zenon DEF Shape, CommandRec
    <3>2. /\ adm' \in [Adm -> CommandRec] /\ adm'[a].pc = "save"
          /\ \A x \in Section : adm'[a].parser[x] = IF x = h THEN None ELSE f[x]
      <4>1. Shape /\ h \in Section /\ (h \in Host => None \in PortalFile \cup {None})
            /\ (h \in Dev => None \in Host \cup {None})
        BY <1>0, <1>d, Zenon
      <4> QED BY <3>1, <4>1, Writes, ZenonT(40) DEF h, f
    <3>3. up' /\ Shape'
      BY <1>0, <2>3, <3>2, ZenonT(40) DEF IInv, Shape
    <3>4. Describes(adm[a].parser, AtWork(adm[a]))'
      <4>1. AtWork(adm[a])' = None
        BY <3>2 DEF AtWork
      <4>2. /\ \A g \in Host : adm'[a].parser[g] = IF g = h THEN None ELSE f[g]
            /\ \A e \in Dev : adm'[a].parser[e] = f[e]
        BY <1>d, <3>2, ZenonT(40) DEF Section
      <4> QED BY <1>d, <2>3, <2>4, <2>5, <4>1, <4>2, ZenonT(40) DEF Describes
    <3>5. CommandOK(adm[a])'
      BY <3>2, <3>4, Zenon DEF CommandOK, Reads
    <3> QED BY <2>3, <3>3, <3>5, OneCommand, ZenonT(40)
  <2> QED BY <1>0, <2>6, <2>7, ZenonT(40)
<1> QED BY <1>2, <1>3, Zenon

LEMMA SaveOK ==
    ASSUME Tested, IInv, NEW a \in Adm, Save(a) PROVE IInv'
<1>1. /\ adm[a].pc = "save" /\ ini' = adm[a].parser /\ Exit(a) /\ UNCHANGED lifeVars
  BY Zenon DEF Save, At, Tested
<1>2. Describes(adm[a].parser, None) /\ adm[a].parser \in Text
  BY <1>1, ZenonT(40) DEF IInv, CommandOK, AtWork, Shape, CommandRec
<1>3. Describes(ini', None)
  BY <1>1, <1>2, Zenon
<1> QED BY <1>1, <1>2, <1>3, EndsUnchanged, ZenonT(40)

LEMMA NextOK ==
    ASSUME Tested, IInv, [Next]_vars PROVE IInv'
<1>1. ASSUME NEW a \in Adm, Command(a) PROVE IInv'
  BY <1>1, createHostOK, createDeviceOK, deleteDeviceOK, deleteHostOK, ZenonT(40) DEF Command
<1>2. ASSUME NEW a \in Adm, Work(a) PROVE IInv'
  BY <1>2, MkHostOK, WritePortalOK, MkDevOK, WriteDeviceOK, WakeTriggerOK, RmDevOK,
     RmHostOK, SaveOK, ZenonT(40) DEF Work
<1>3. CASE UNCHANGED vars
  <2>1. UNCHANGED lifeVars /\ ini' = ini /\ adm' = adm
    BY <1>3, Zenon DEF vars, lifeVars
  <2>2. up' /\ Shape' /\ ThreadsOK' /\ DevicesOK' /\ PortalsDistinct'
    BY <2>1, SameLife, ZenonT(40) DEF IInv, Shape
  <2>3. \A a \in Adm : CommandOK(adm[a])'
    BY <2>1, SameCommand, ZenonT(40) DEF IInv, lifeVars
  <2> QED BY <2>2, <2>3, ZenonT(40) DEF IInv
<1> QED BY <1>1, <1>2, <1>3, modprobeOK, modprobe_rOK, RestartOK, ThreadsStepOK, ZenonT(40) DEF Next

-----------------------------------------------------------------------------
(* The theorems *)

(* nbdxadm's copy of the file describes the directories at every step of   *)
(* every command.                                                          *)
THEOREM AdminInv ==
    ASSUME Tested PROVE Spec => []IInv
<1>1. Init => IInv
  BY Start0, Zenon
<1>2. IInv /\ [Next]_vars => IInv'
  BY NextOK, Zenon
<1> QED BY <1>1, <1>2, PTL DEF Spec

(* No command, restart or failed call makes the module use what it freed,  *)
(* never allocated or never registered, in the roll-backs of               *)
(* IS_create_device and nbdxadm and in rdma_trigger.                       *)
THEOREM NothingFreedIsUsed ==
    ASSUME Tested PROVE Spec => []NoOops
<1>1. IInv => NoOops
  BY Zenon DEF IInv, NoOops
<1> QED BY <1>1, AdminInv, PTL

(* Between commands infiniswap.ini has exactly the directories there are,  *)
(* with the portals and hosts they were made with, after all failures,     *)
(* roll-backs and restarts.                                                *)
THEOREM FileAgrees ==
    ASSUME Tested PROVE Spec => []IniMatches
<1>1. IInv => IniMatches
  <2> SUFFICES ASSUME IInv, NEW a \in Adm, Quiet, up, Hosts # {}
               PROVE  /\ Sections(ini) = Hosts \cup Devs
                      /\ \A h \in Hosts : TextOf[ini[h]] = session[h].given
                      /\ \A d \in Devs : ini[d] = file[d].host
    BY Zenon DEF IniMatches, Tested
  <2>1. PICK h \in Host : session[h].made
    BY Zenon DEF Hosts
  <2>2. Describes(ini, None)
    BY <2>1, Zenon DEF IInv, CommandOK, Quiet
  <2>3. None \notin Host \cup Dev \cup Portal \cup PortalFile
    BY LifeCycleAssumption, AdminAssumption, Zenon
  <2>4. \A d \in Dev : file[d].made => file[d].host \in Host
    BY Made, Zenon DEF IInv
  <2>5. /\ \A g \in Host : ini[g] # None <=> session[g].made
        /\ \A d \in Dev : ini[d] # None <=> file[d].made
    BY <2>2, <2>3, <2>4, ZenonT(40) DEF Describes
  <2>6. Sections(ini) = Hosts \cup Devs
    BY <2>5, Zenon DEF Sections, Section, Hosts, Devs
  <2> QED BY <2>2, <2>3, <2>6, ZenonT(40) DEF Describes, Hosts, Devs
<1> QED BY <1>1, AdminInv, PTL

(* A device in state running has its disk, queues, connections and backup  *)
(* disk, and a removed one leaves nothing of the backup disk.              *)
THEOREM DevicesComplete ==
    ASSUME Tested PROVE Spec => []RunningIsComplete
<1>1. IInv => RunningIsComplete
  <2> SUFFICES ASSUME IInv PROVE RunningIsComplete
    BY Zenon
  <2>1. \A d \in Dev : file[d].made => file[d].host \in Host
    BY Made, Zenon DEF IInv
  <2> QED BY <2>1, Zenon DEF IInv, DevicesOK, RunningIsComplete, Devs, Hosts
<1> QED BY <1>1, AdminInv, PTL

(* No two sessions use the same servers, although the portal that          *)
(* IS_session_find_by_portal compares was cut at its commas.               *)
THEOREM PortalsKeptApart ==
    ASSUME Tested PROVE Spec => []PortalsDistinct
<1>1. IInv => PortalsDistinct
  BY DEF IInv
<1> QED BY <1>1, AdminInv, PTL
=============================================================================
