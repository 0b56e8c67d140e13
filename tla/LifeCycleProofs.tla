--------------------------- MODULE LifeCycleProofs --------------------------
(***************************************************************************)
(* The invariant of the administration of the kernel module, for any       *)
(* number of hosts, devices and portals, under the administration the code *)
(* is written for (Tested); and the steps that keep it which load and      *)
(* unload the module, start commands, run the threads and make hosts.      *)
(* AdminProofs has the other steps and the theorems.                       *)
(*                                                                         *)
(* IniMatches speaks of the moments between two commands.  What carries it *)
(* over a command is that the command's copy of the file describes all     *)
(* directories but the one it is at work on (CommandOK).                   *)
(***************************************************************************)
EXTENDS Admin, TLAPS

(* One administrator, who neither kills a command nor makes a second       *)
(* device nor takes a host down whose thread runs; no failure inside the   *)
(* set-up of the backup disk; portal files of different text, with the     *)
(* same number of servers.  The README lists what each of these excludes.  *)
Tested ==
    /\ Adm # {} /\ \A a, b \in Adm : a = b
    /\ Faults \cap {"kill", "second_device", "teardown", "stack_queue", "gd", "start"} = {}
    /\ \A p, q \in PortalFile : TextOf[p] = TextOf[q] => p = q
    /\ \A p, q \in Portal : Servers[p] = Servers[q]

SessionRec == [made : {TRUE}, portal : Nat \cup {None}, given : Portal \cup {None},
               cb_num : Nat, conns : BOOLEAN]
FileRec == [made : {TRUE}, host : Host, file_name : Dev \cup {None},
            state : {"OPENNING", "RUNNING"}, queues : {"null", "freed", "live"},
            disk : {"null", "added"}, waking : BOOLEAN]
Text == {f \in [Section -> Host \cup PortalFile \cup {None}] :
            /\ \A h \in Host : f[h] \in PortalFile \cup {None}
            /\ \A d \in Dev : f[d] \in Host \cup {None}}
CommandRec == [pc : {"idle", "mkhost", "portal", "unhost", "mkdev", "device", "undev",
                     "sleep", "save", "rmdev", "rmhost"},
               host : Host \cup {None}, dev : Dev \cup {None},
               portal : PortalFile \cup {None}, parser : Text]

Shape ==
    /\ loaded \in BOOLEAN /\ NUM_CB \in Nat
    /\ session \in [Host -> {NoSession} \cup SessionRec]
    /\ file \in [Dev -> {NoFile} \cup FileRec]
    /\ trigger \in [Host -> {"null", "created", "awake", "running"}]
    /\ stackbd \in [is_active : BOOLEAN, thread : BOOLEAN, gd : BOOLEAN]
    /\ ini \in Text /\ adm \in [Adm -> CommandRec]
    /\ major_num \in 0 .. MaxMajors /\ held \subseteq 1 .. MaxMajors

(* Threads belong to connected sessions of a loaded module, and all        *)
(* sessions have the servers of the portal parsed last.                    *)
ThreadsOK ==
    /\ ~loaded => \A h \in Host : ~session[h].made
    /\ \A h \in Host : trigger[h] # "null" =>
          session[h].made /\ session[h].conns /\ session[h].cb_num = NUM_CB
    /\ \A h \in Host : session[h].made /\ session[h].given # None =>
          session[h].cb_num = Servers[session[h].given] /\ NUM_CB = session[h].cb_num

(* There is one device at a time; it has a disk when it runs and then the  *)
(* backup disk is there.  Without one, the next number is to be had.       *)
DevicesOK ==
    /\ \A d, e \in Dev : file[d].made /\ file[e].made => d = e
    /\ \A d \in Dev : file[d].made =>
          /\ session[file[d].host].made
          /\ (file[d].disk = "added") <=> (file[d].state = "RUNNING")
          /\ file[d].state = "RUNNING" =>
                file[d].queues = "live" /\ session[file[d].host].conns
                /\ stackbd = [is_active |-> TRUE, thread |-> TRUE, gd |-> TRUE]
    /\ (\A d \in Dev : file[d].made => file[d].disk = "null") =>
          /\ ~stackbd.thread /\ ~stackbd.gd
          /\ major_num \notin held

(* f is the file for the directories there are, but for the one named x.   *)
Describes(f, x) ==
    /\ \A h \in Host :
          IF session[h].made /\ h # x
          THEN /\ f[h] \in PortalFile /\ session[h].given = TextOf[f[h]]
               /\ session[h].conns
          ELSE f[h] = None
    /\ \A d \in Dev :
          IF file[d].made /\ d # x THEN f[d] = file[d].host /\ f[d] # x ELSE f[d] = None

(* What is left out of the copy of a command at pc. *)
AtWork(c) == IF c.pc \in {"portal", "unhost"} THEN c.host
             ELSE IF c.pc \in {"device", "undev"} THEN c.dev ELSE None

Reads == {"mkhost", "portal", "unhost", "mkdev", "device", "undev", "rmdev"}

CommandOK(c) ==
    /\ c.pc = "idle" => \A h \in Host : session[h].made => Describes(ini, None)
    /\ c.pc # "idle" => Describes(c.parser, AtWork(c))
    /\ c.pc \in Reads => ini = c.parser
    /\ c.pc \in {"mkhost", "portal", "unhost"} =>
          /\ c.host \in Host /\ c.portal \in PortalFile
          /\ \A s \in Host : c.parser[s] # c.portal
          /\ trigger[c.host] = "null"
    /\ c.pc = "portal" => session[c.host] = NewSession
    /\ c.pc = "unhost" => /\ session[c.host].made
                          /\ session[c.host].given \in {None, TextOf[c.portal]}
    /\ c.pc \in {"mkdev", "device"} =>
          /\ c.dev \in Dev /\ c.host \in Host /\ session[c.host].made
          /\ Cardinality(held) < MaxMajors
    /\ c.pc = "mkdev" => \A d \in Dev : ~file[d].made
    /\ c.pc = "device" => file[c.dev] = NewFile(c.host)
    /\ c.pc = "undev" => c.dev \in Dev /\ file[c.dev].made
    /\ c.pc = "sleep" => c.dev \in Dev /\ file[c.dev].made /\ session[file[c.dev].host].made
    /\ c.pc = "rmdev" => c.dev \in Dev /\ file[c.dev].made
    /\ c.pc = "rmhost" => /\ c.host \in Host /\ session[c.host].made
                          /\ trigger[c.host] \notin {"awake", "running"}

(* Without a command the file is right or there are no directories. *)
IInv ==
    /\ up /\ Shape /\ ThreadsOK /\ DevicesOK
    /\ \A a \in Adm : CommandOK(adm[a])
    /\ PortalsDistinct

-----------------------------------------------------------------------------
(* The lemmas *)

LEMMA IdleRec == Idle \in CommandRec /\ Idle.pc = "idle" /\ NoSections \in Text
<1>1. NoSections \in Text
  BY LifeCycleAssumption DEF Text, NoSections, Section
<1> QED BY <1>1 DEF Idle, CommandRec

LEMMA Start0 == ASSUME Tested PROVE Init => IInv
<1> SUFFICES ASSUME Init PROVE IInv
  OBVIOUS
<1>1. up /\ Shape
  <2>1. up /\ loaded \in BOOLEAN
    BY Zenon DEF Init, LifeInit
  <2>2. stackbd \in [is_active : BOOLEAN, thread : BOOLEAN, gd : BOOLEAN]
    BY DEF Init, LifeInit, NoStackbd
  <2>3. /\ NUM_CB \in Nat /\ major_num \in 0 .. MaxMajors /\ held \subseteq 1 .. MaxMajors
        /\ ini \in Text /\ adm \in [Adm -> CommandRec]
    BY LifeCycleAssumption, IdleRec DEF Init, LifeInit
  <2>4. /\ session \in [Host -> {NoSession} \cup SessionRec]
        /\ file \in [Dev -> {NoFile} \cup FileRec]
        /\ trigger \in [Host -> {"null", "created", "awake", "running"}]
    BY DEF Init, LifeInit
  <2> QED BY <2>1, <2>2, <2>3, <2>4 DEF Shape
<1>2. ThreadsOK /\ DevicesOK
  BY Zenon DEF Init, LifeInit, ThreadsOK, DevicesOK, NoSession, NoFile, NoStackbd
<1>3. \A a \in Adm : CommandOK(adm[a])
  BY DEF Init, LifeInit, CommandOK, Idle, Reads, NoSession
<1>4. PortalsDistinct
  BY DEF Init, LifeInit, PortalsDistinct, Hosts, NoSession
<1> QED BY <1>1, <1>2, <1>3, <1>4 DEF IInv

(* With one administrator it is enough to look at one command. *)
LEMMA OneCommand ==
    ASSUME Tested, NEW a \in Adm, up', Shape', ThreadsOK', DevicesOK',
           CommandOK(adm[a])', PortalsDistinct'
    PROVE  IInv'
<1>1. \A b \in Adm : b = a
  BY DEF Tested
<1>2. \A b \in Adm : CommandOK(adm[b])'
  BY <1>1
<1> QED BY <1>2 DEF IInv

(* A command that goes on, and one that ends. *)
LEMMA Goes ==
    ASSUME Shape, NEW a \in Adm, NEW pc, Go(a, pc)
    PROVE  /\ adm' = [adm EXCEPT ![a] = adm'[a]]
           /\ adm'[a].pc = pc /\ adm'[a].host = adm[a].host /\ adm'[a].dev = adm[a].dev
           /\ adm'[a].portal = adm[a].portal /\ adm'[a].parser = adm[a].parser
           /\ pc \in {"idle", "mkhost", "portal", "unhost", "mkdev", "device", "undev",
                      "sleep", "save", "rmdev", "rmhost"} => adm' \in [Adm -> CommandRec]
BY DEF Shape, Go, CommandRec

LEMMA Exits ==
    ASSUME Shape, NEW a \in Adm, Exit(a)
    PROVE  adm'[a] = Idle /\ adm'[a].pc = "idle" /\ adm' \in [Adm -> CommandRec]
BY IdleRec DEF Shape, Exit

(* A command that changes nothing but its file and ends. *)
LEMMA Ends ==
    ASSUME NEW c, c.pc = "idle", Describes(ini, None)
    PROVE  CommandOK(c)
BY DEF CommandOK, Reads

(* The directories and what was made for them are as before. *)
LEMMA SameLife ==
    ASSUME IInv, UNCHANGED lifeVars, ini' \in Text, adm' \in [Adm -> CommandRec]
    PROVE  /\ up' /\ Shape' /\ ThreadsOK' /\ DevicesOK' /\ PortalsDistinct'
           /\ \A f, x : Describes(f, x)' <=> Describes(f, x)
<1> USE DEF lifeVars
<1>1. up' /\ Shape'
  BY Zenon DEF IInv, Shape
<1>2. ThreadsOK' /\ DevicesOK'
  BY DEF IInv, ThreadsOK, DevicesOK
<1>3. PortalsDistinct'
  BY DEF IInv, PortalsDistinct, Hosts
<1>4. \A f, x : Describes(f, x)' <=> Describes(f, x)
  BY DEF Describes
<1> QED BY <1>1, <1>2, <1>3, <1>4

(* Directories that are there. *)
LEMMA MadeFile ==
    ASSUME NEW r \in {NoFile} \cup FileRec, r.made
    PROVE  r \in FileRec /\ r.host \in Host
<1>1. ~NoFile.made
  BY DEF NoFile
<1> QED BY <1>1, Zenon DEF FileRec

LEMMA Made ==
    ASSUME Shape
    PROVE  /\ \A h \in Host : session[h].made => session[h] \in SessionRec
           /\ \A d \in Dev : file[d].made => file[d] \in FileRec /\ file[d].host \in Host
<1>1. \A h \in Host : session[h] = NoSession \/ session[h] \in SessionRec
  BY DEF Shape
<1>2. \A d \in Dev : file[d] = NoFile \/ file[d] \in FileRec
  BY DEF Shape
<1>3. ~NoSession.made /\ ~NoFile.made
  BY DEF NoSession, NoFile
<1>4. \A r \in FileRec : r.host \in Host
  BY DEF FileRec
<1> QED BY <1>1, <1>2, <1>3, <1>4, Zenon

-----------------------------------------------------------------------------
(* Commands begin *)

(* What a command reads describes all directories, also when the file was  *)
(* left from before a restart.                                             *)
LEMMA ReadIniOK ==
    ASSUME IInv, NEW a \in Adm, adm[a].pc = "idle"
    PROVE  ReadIni \in Text /\ Describes(ReadIni, None)
<1>1. CASE Hosts = {}
  <2>1. \A h \in Host : ~session[h].made
    BY <1>1, Zenon DEF Hosts
  <2>2. \A d \in Dev : ~file[d].made
    BY <2>1, Made DEF IInv, DevicesOK
  <2>3. ReadIni = NoSections
    BY <1>1, Zenon DEF ReadIni
  <2> QED BY <2>1, <2>2, <2>3, IdleRec DEF Describes, NoSections, Section
<1>2. CASE Hosts # {}
  <2>1. ReadIni = ini
    BY <1>2 DEF ReadIni
  <2>2. PICK h \in Host : session[h].made
    BY <1>2, Zenon DEF Hosts
  <2> QED BY <2>1, <2>2 DEF IInv, CommandOK, Shape
<1> QED BY <1>1, <1>2

LEMMA Starts ==
    ASSUME IInv, NEW a \in Adm,
           NEW pc \in {"mkhost", "mkdev", "rmdev", "rmhost"},
           NEW h \in Host \cup {None}, NEW d \in Dev \cup {None},
           NEW p \in PortalFile \cup {None}, NEW ok \in BOOLEAN, Start(a, pc, h, d, p, ok)
    PROVE  /\ up' /\ Shape' /\ ThreadsOK' /\ DevicesOK' /\ PortalsDistinct'
           /\ Describes(ReadIni, None) /\ Describes(ini, None)' /\ ini' = ReadIni
           /\ IF ok THEN /\ adm'[a].pc = pc /\ adm'[a].host = h /\ adm'[a].dev = d
                         /\ adm'[a].portal = p /\ adm'[a].parser = ini'
                    ELSE adm'[a].pc = "idle"
           /\ UNCHANGED lifeVars
<1>1. adm[a].pc = "idle" /\ ini' = ReadIni /\ UNCHANGED lifeVars
  BY DEF Start, At
<1>2. ReadIni \in Text /\ Describes(ReadIni, None)
  BY <1>1, ReadIniOK
<1> DEFINE c == [pc |-> pc, host |-> h, dev |-> d, portal |-> p, parser |-> ReadIni]
<1>3. c \in CommandRec
  BY <1>2 DEF CommandRec
<1>4. adm' = IF ok THEN [adm EXCEPT ![a] = c] ELSE adm
  BY DEF Start
<1>5. adm \in [Adm -> CommandRec]
  BY DEF IInv, Shape
<1>6. /\ adm' \in [Adm -> CommandRec]
      /\ adm'[a] = IF ok THEN c ELSE adm[a]
  <2> HIDE DEF c
  <2> QED BY <1>3, <1>4, <1>5, Zenon
<1>7. /\ up' /\ Shape' /\ ThreadsOK' /\ DevicesOK' /\ PortalsDistinct'
  BY <1>1, <1>2, <1>6, SameLife, Zenon
<1>8. Describes(ini, None)'
  BY <1>1, <1>2 DEF Describes, lifeVars
<1> QED BY <1>1, <1>2, <1>6, <1>7, <1>8

LEMMA createHostOK ==
    ASSUME Tested, IInv, NEW a \in Adm, NEW h \in Host, NEW p \in PortalFile,
           createHost(a, h, p)
    PROVE  IInv'
<1> DEFINE ok == ReadIni[h] = None /\ \A s \in Host : ReadIni[s] # p
<1>0. Start(a, "mkhost", h, None, p, ok) /\ ok \in BOOLEAN
  BY Zenon DEF createHost
<1> HIDE DEF ok
<1>1. /\ up' /\ Shape' /\ ThreadsOK' /\ DevicesOK' /\ PortalsDistinct'
      /\ Describes(ReadIni, None) /\ Describes(ini, None)' /\ ini' = ReadIni
      /\ IF ok THEN /\ adm'[a].pc = "mkhost" /\ adm'[a].host = h /\ adm'[a].dev = None
                    /\ adm'[a].portal = p /\ adm'[a].parser = ini'
               ELSE adm'[a].pc = "idle"
      /\ UNCHANGED lifeVars
  BY <1>0, Starts, Zenon
<1>2. CASE ok
  <2>1. ini'[h] = None /\ \A s \in Host : ini'[s] # p
    BY <1>1, <1>2, ZenonT(40) DEF ok
  <2>2. trigger'[h] = "null"
    BY <1>1, <2>1, AdminAssumption, LifeCycleAssumption, ZenonT(40) DEF Describes, IInv, ThreadsOK, lifeVars
  <2>3. CommandOK(adm[a])'
    BY <1>1, <1>2, <2>1, <2>2, ZenonT(40) DEF CommandOK, AtWork, Reads
  <2> QED BY <1>1, <2>3, OneCommand, Zenon
<1>3. CASE ~ok
  <2>1. CommandOK(adm[a])'
    BY <1>1, <1>3, Zenon DEF CommandOK, Reads
  <2> QED BY <1>1, <2>1, OneCommand
<1> QED BY <1>2, <1>3

LEMMA createDeviceOK ==
    ASSUME Tested, IInv, NEW a \in Adm, NEW h \in Host, NEW d \in Dev,
           createDevice(a, h, d)
    PROVE  IInv'
<1> DEFINE ok == ReadIni[h] # None /\ ReadIni[d] = None
<1>0. /\ Start(a, "mkdev", h, d, None, ok) /\ ok \in BOOLEAN
      /\ Devs = {} /\ Cardinality(held) < MaxMajors
  BY Zenon DEF createDevice, Tested
<1> HIDE DEF ok
<1>1. /\ up' /\ Shape' /\ ThreadsOK' /\ DevicesOK' /\ PortalsDistinct'
      /\ Describes(ReadIni, None) /\ Describes(ini, None)' /\ ini' = ReadIni
      /\ IF ok THEN /\ adm'[a].pc = "mkdev" /\ adm'[a].host = h /\ adm'[a].dev = d
                    /\ adm'[a].portal = None /\ adm'[a].parser = ini'
               ELSE adm'[a].pc = "idle"
      /\ UNCHANGED lifeVars
  BY <1>0, Starts, Zenon
<1>2. CASE ok
  <2>1. session'[h].made
    BY <1>1, <1>2, LifeCycleAssumption, Zenon DEF ok, Describes, lifeVars
  <2>2. Cardinality(held') < MaxMajors /\ \A e \in Dev : ~file'[e].made
    BY <1>0, <1>1, Zenon DEF lifeVars, Devs
  <2>3. CommandOK(adm[a])'
    BY <1>1, <1>2, <2>1, <2>2, Zenon DEF CommandOK, AtWork, Reads
  <2> QED BY <1>1, <2>3, OneCommand, Zenon
<1>3. CASE ~ok
  <2>1. CommandOK(adm[a])'
    BY <1>1, <1>3 DEF CommandOK, Reads
  <2> QED BY <1>1, <2>1, OneCommand
<1> QED BY <1>2, <1>3

LEMMA deleteDeviceOK ==
    ASSUME Tested, IInv, NEW a \in Adm, NEW d \in Dev, deleteDevice(a, d)
    PROVE  IInv'
<1> DEFINE ok == ReadIni[d] # None
           h == ReadIni[d]
<1>0. Start(a, "rmdev", h, d, None, ok) /\ ok \in BOOLEAN
  BY DEF deleteDevice
<1>h. h \in Host \cup {None}
  <2>1. adm[a].pc = "idle"
    BY <1>0, Zenon DEF Start, At
  <2> QED BY <2>1, ReadIniOK, Zenon DEF Text
<1> HIDE DEF ok, h
<1>1. /\ up' /\ Shape' /\ ThreadsOK' /\ DevicesOK' /\ PortalsDistinct'
      /\ Describes(ReadIni, None) /\ Describes(ini, None)' /\ ini' = ReadIni
      /\ IF ok THEN /\ adm'[a].pc = "rmdev" /\ adm'[a].host = h /\ adm'[a].dev = d
                    /\ adm'[a].portal = None /\ adm'[a].parser = ini'
               ELSE adm'[a].pc = "idle"
      /\ UNCHANGED lifeVars
  BY <1>0, <1>h, Starts, Zenon
<1>2. CASE ok
  <2>1. file'[d].made
    BY <1>1, <1>2, LifeCycleAssumption, ZenonT(40) DEF ok, Describes, lifeVars
  <2>3. CommandOK(adm[a])'
    BY <1>1, <1>2, <2>1, ZenonT(40) DEF CommandOK, AtWork, Reads
  <2> QED BY <1>1, <2>3, OneCommand, Zenon
<1>3. CASE ~ok
  <2>1. CommandOK(adm[a])'
    BY <1>1, <1>3, Zenon DEF CommandOK, Reads
  <2> QED BY <1>1, <2>1, OneCommand
<1> QED BY <1>2, <1>3

LEMMA deleteHostOK ==
    ASSUME Tested, IInv, NEW a \in Adm, NEW h \in Host, deleteHost(a, h)
    PROVE  IInv'
<1> DEFINE ok == ReadIni[h] # None
<1>0. /\ Start(a, "rmhost", h, None, None, ok) /\ ok \in BOOLEAN
      /\ trigger[h] \notin {"awake", "running"}
  BY Zenon DEF deleteHost, Tested
<1> HIDE DEF ok
<1>1. /\ up' /\ Shape' /\ ThreadsOK' /\ DevicesOK' /\ PortalsDistinct'
      /\ Describes(ReadIni, None) /\ Describes(ini, None)' /\ ini' = ReadIni
      /\ IF ok THEN /\ adm'[a].pc = "rmhost" /\ adm'[a].host = h /\ adm'[a].dev = None
                    /\ adm'[a].portal = None /\ adm'[a].parser = ini'
               ELSE adm'[a].pc = "idle"
      /\ UNCHANGED lifeVars
  BY <1>0, Starts, Zenon
<1>2. CASE ok
  <2>1. session'[h].made /\ trigger'[h] \notin {"awake", "running"}
    BY <1>0, <1>1, <1>2, LifeCycleAssumption, ZenonT(40) DEF ok, Describes, lifeVars
  <2>3. CommandOK(adm[a])'
    BY <1>1, <1>2, <2>1, ZenonT(40) DEF CommandOK, AtWork, Reads
  <2> QED BY <1>1, <2>3, OneCommand, Zenon
<1>3. CASE ~ok
  <2>1. CommandOK(adm[a])'
    BY <1>1, <1>3 DEF CommandOK, Reads
  <2> QED BY <1>1, <2>1, OneCommand
<1> QED BY <1>2, <1>3

(* A command that others do not meet. *)
LEMMA SameCommand ==
    ASSUME NEW a \in Adm, UNCHANGED <<session, file, trigger, held, ini>>,
           adm'[a] = adm[a], CommandOK(adm[a])
    PROVE  CommandOK(adm[a])'
<1>1. Describes(adm[a].parser, AtWork(adm[a]))' <=> Describes(adm[a].parser, AtWork(adm[a]))
  BY DEF Describes, AtWork
<1>2. Describes(ini, None)' <=> Describes(ini, None)
  BY DEF Describes
<1> QED BY <1>1, <1>2, ZenonT(40) DEF CommandOK

(* The module is loaded and unloaded, the machine restarts, and a thread   *)
(* makes a pass.                                                           *)
LEMMA modprobeOK ==
    ASSUME IInv, modprobe PROVE IInv'
<1>0. \A h \in Host : ~session[h].made
  BY DEF IInv, ThreadsOK, modprobe, IS_init_module
<1>1. \A d \in Dev : ~file[d].made
  BY <1>0, Made DEF IInv, DevicesOK
<1>2. /\ session' = session /\ file' = file /\ trigger' = trigger /\ held' = held /\ up' = up
      /\ ini' = ini /\ adm' = adm
  BY DEF modprobe, IS_init_module
<1>3. up' /\ Shape'
  <2>1. loaded' \in BOOLEAN
    BY DEF modprobe, IS_init_module
  <2>2. stackbd' \in [is_active : BOOLEAN, thread : BOOLEAN, gd : BOOLEAN]
    BY DEF modprobe, IS_init_module, NoStackbd
  <2>3. NUM_CB' \in Nat /\ major_num' \in 0 .. MaxMajors
    BY LifeCycleAssumption DEF modprobe, IS_init_module
  <2> QED BY <1>2, <2>1, <2>2, <2>3 DEF IInv, Shape
<1>4. ThreadsOK'
  BY <1>0, <1>2 DEF IInv, ThreadsOK
<1>5. DevicesOK'
  <2>1. ~stackbd'.thread /\ ~stackbd'.gd
    BY DEF modprobe, IS_init_module, NoStackbd
  <2>2. major_num' \notin held'
    BY <1>2 DEF modprobe, IS_init_module, IInv, Shape
  <2> QED BY <1>1, <1>2, <2>1, <2>2, Zenon DEF DevicesOK
<1>6. \A a \in Adm : CommandOK(adm[a])'
  BY <1>2, SameCommand, Zenon DEF IInv
<1>7. PortalsDistinct'
  BY <1>2, Zenon DEF IInv, PortalsDistinct, Hosts
<1> QED BY <1>3, <1>4, <1>5, <1>6, <1>7 DEF IInv

LEMMA modprobe_rOK ==
    ASSUME IInv, modprobe_r PROVE IInv'
<1>0. \A h \in Host : ~session[h].made
  BY DEF modprobe_r, IS_cleanup_module, Hosts
<1>2. /\ session' = session /\ file' = file /\ trigger' = trigger /\ held' = held /\ up' = up
      /\ ini' = ini /\ adm' = adm /\ NUM_CB' = NUM_CB /\ stackbd' = stackbd
      /\ major_num' = major_num
  BY Zenon DEF modprobe_r, IS_cleanup_module
<1>3. up' /\ Shape'
  <2>1. loaded' \in BOOLEAN
    BY Zenon DEF modprobe_r, IS_cleanup_module
  <2> QED BY <1>2, <2>1 DEF IInv, Shape
<1>4. ThreadsOK'
  BY <1>0, <1>2, Zenon DEF IInv, ThreadsOK
<1>5. DevicesOK'
  BY <1>2 DEF IInv, DevicesOK
<1>6. \A a \in Adm : CommandOK(adm[a])'
  BY <1>2, SameCommand, Zenon DEF IInv
<1>7. PortalsDistinct'
  BY <1>2, Zenon DEF IInv, PortalsDistinct, Hosts
<1> QED BY <1>3, <1>4, <1>5, <1>6, <1>7 DEF IInv

LEMMA RestartOK ==
    ASSUME IInv, Restart PROVE IInv'
<1>0. /\ \A h \in Host : ~session'[h].made /\ trigger'[h] = "null"
      /\ \A d \in Dev : ~file'[d].made
  BY Zenon DEF Restart, Reboot, NoSession, NoFile
<1>3. up' /\ Shape'
  <2>1. up' /\ loaded' \in BOOLEAN
    BY Zenon DEF Restart, Reboot
  <2>2. stackbd' \in [is_active : BOOLEAN, thread : BOOLEAN, gd : BOOLEAN]
    BY Zenon DEF Restart, Reboot, NoStackbd
  <2>3. /\ NUM_CB' \in Nat /\ major_num' \in 0 .. MaxMajors /\ held' \subseteq 1 .. MaxMajors
        /\ ini' \in Text /\ adm' \in [Adm -> CommandRec]
    BY LifeCycleAssumption, IdleRec DEF Restart, Reboot, IInv, Shape
  <2>4. /\ session' \in [Host -> {NoSession} \cup SessionRec]
        /\ file' \in [Dev -> {NoFile} \cup FileRec]
        /\ trigger' \in [Host -> {"null", "created", "awake", "running"}]
    BY Zenon DEF Restart, Reboot
  <2> QED BY <2>1, <2>2, <2>3, <2>4 DEF Shape
<1>4. ThreadsOK'
  BY <1>0, Zenon DEF ThreadsOK
<1>5. DevicesOK'
  <2>1. ~stackbd'.thread /\ ~stackbd'.gd /\ major_num' \notin held'
    BY ZenonT(40) DEF Restart, Reboot, NoStackbd
  <2> QED BY <1>0, <2>1, Zenon DEF DevicesOK
<1>6. \A a \in Adm : CommandOK(adm[a])'
  <2>1. \A a \in Adm : adm'[a].pc = "idle"
    BY IdleRec, Zenon DEF Restart
  <2> QED BY <1>0, <2>1 DEF CommandOK, Reads
<1>7. PortalsDistinct'
  BY <1>0, Zenon DEF PortalsDistinct, Hosts
<1> QED BY <1>3, <1>4, <1>5, <1>6, <1>7 DEF IInv

LEMMA ThreadsStepOK ==
    ASSUME IInv, Threads PROVE IInv'
<1>0. PICK h \in Host : rdma_trigger(h) /\ UNCHANGED <<ini, adm, IS_indexes>>
  BY Zenon DEF Threads
<1>1. /\ trigger[h] \in {"awake", "running"}
      /\ session[h].made /\ loaded /\ NUM_CB = session[h].cb_num
  BY <1>0 DEF rdma_trigger, IInv, Shape, ThreadsOK
<1>2. /\ trigger' = [trigger EXCEPT ![h] = "running"]
      /\ UNCHANGED <<up, loaded, session, file, NUM_CB, stackbd, major_num, held, ini, adm>>
  BY <1>0, <1>1, Zenon DEF rdma_trigger
<1>3. /\ trigger' \in [Host -> {"null", "created", "awake", "running"}]
      /\ \A g \in Host : trigger'[g] = IF g = h THEN "running" ELSE trigger[g]
  BY <1>2, Zenon DEF IInv, Shape
<1>4. up' /\ Shape'
  BY <1>2, <1>3, Zenon DEF IInv, Shape
<1>5. ThreadsOK'
  BY <1>1, <1>2, <1>3, Zenon DEF IInv, ThreadsOK
<1>6. DevicesOK' /\ PortalsDistinct'
  BY <1>2 DEF IInv, DevicesOK, PortalsDistinct, Hosts
<1>7. ASSUME NEW a \in Adm PROVE CommandOK(adm[a])'
  <2>1. CommandOK(adm[a])
    BY DEF IInv
  <2>2. Describes(adm[a].parser, AtWork(adm[a]))' <=> Describes(adm[a].parser, AtWork(adm[a]))
    BY <1>2 DEF Describes, AtWork
  <2>3. Describes(ini, None)' <=> Describes(ini, None)
    BY <1>2 DEF Describes
  <2>4. \A g \in Host : /\ trigger[g] = "null" => trigger'[g] = "null"
                        /\ trigger[g] \notin {"awake", "running"} =>
                               trigger'[g] \notin {"awake", "running"}
    BY <1>1, <1>3
  <2> QED BY <1>2, <2>1, <2>2, <2>3, <2>4, ZenonT(40) DEF CommandOK
<1> QED BY <1>4, <1>5, <1>6, <1>7, Zenon DEF IInv

-----------------------------------------------------------------------------
(* Commands at work *)

(* A command that ends with the directories as its file has them. *)
LEMMA EndsUnchanged ==
    ASSUME Tested, IInv, NEW a \in Adm, UNCHANGED lifeVars, Exit(a),
           ini' \in Text, Describes(ini', None)
    PROVE  IInv'
<1>1. adm'[a].pc = "idle" /\ adm' \in [Adm -> CommandRec]
  BY Exits DEF IInv
<1>2. up' /\ Shape' /\ ThreadsOK' /\ DevicesOK' /\ PortalsDistinct'
  BY <1>1, SameLife
<1>3. Describes(ini, None)'
  BY DEF Describes, lifeVars
<1>4. CommandOK(adm[a])'
  BY <1>1, <1>3, Zenon DEF CommandOK, Reads
<1> QED BY <1>2, <1>4, OneCommand

LEMMA MkHostOK ==
    ASSUME Tested, IInv, NEW a \in Adm, MkHost(a) PROVE IInv'
<1> DEFINE h == adm[a].host
           f == adm[a].parser
<1>0. /\ adm[a].pc = "mkhost" /\ Shape /\ CommandOK(adm[a]) /\ UNCHANGED <<ini, IS_indexes>>
      /\ adm[a] \in CommandRec
  BY ZenonT(40) DEF MkHost, At, IInv, Shape
<1>1. /\ Describes(f, None) /\ ini = f /\ h \in Host /\ adm[a].portal \in PortalFile
      /\ \A s \in Host : f[s] # adm[a].portal
      /\ trigger[h] = "null"
  BY <1>0, ZenonT(40) DEF CommandOK, AtWork, Reads
<1> HIDE DEF h, f
<1>2. CASE UNCHANGED lifeVars /\ Exit(a)
  BY <1>0, <1>1, <1>2, EndsUnchanged, Zenon DEF Shape
<1>3. CASE /\ h \notin Hosts /\ loaded
           /\ IS_session_make_group(h) /\ Go(a, "portal")
  <2>0. ~session[h].made /\ loaded
    BY <1>1, <1>3 DEF Hosts
  <2>1. /\ session' = [session EXCEPT ![h] = NewSession]
        /\ UNCHANGED <<up, loaded, file, trigger, NUM_CB, stackbd, major_num, held, ini>>
    BY <1>0, <1>3, Zenon DEF IS_session_make_group
  <2>2. /\ NewSession \in SessionRec /\ NewSession.made /\ NewSession.given = None
    BY DEF NewSession, SessionRec
  <2>3. /\ session' \in [Host -> {NoSession} \cup SessionRec]
        /\ \A g \in Host : session'[g] = IF g = h THEN NewSession ELSE session[g]
    BY <1>0, <2>1, <2>2, ZenonT(40) DEF Shape
  <2>4. /\ adm' \in [Adm -> CommandRec]
        /\ adm'[a].pc = "portal" /\ adm'[a].host = h
        /\ adm'[a].portal = adm[a].portal /\ adm'[a].parser = f
    BY <1>0, <1>3, Goes, Zenon DEF h, f
  <2>5. up' /\ Shape'
    BY <2>1, <2>3, <2>4, Zenon DEF IInv, Shape
  <2>6. ThreadsOK'
    BY <1>1, <2>0, <2>1, <2>2, <2>3, Zenon DEF IInv, ThreadsOK
  <2>7. \A d \in Dev : file[d].made => file[d].host \in Host /\ file[d].host # h
    BY <1>0, <2>0, Made, ZenonT(40) DEF IInv, DevicesOK
  <2>8. DevicesOK'
    BY <2>1, <2>3, <2>7, ZenonT(40) DEF IInv, DevicesOK
  <2>9. PortalsDistinct'
    BY <1>1, <2>2, <2>3 DEF IInv, PortalsDistinct, Hosts
  <2>10. Describes(adm[a].parser, AtWork(adm[a]))'
    <3>1. AtWork(adm[a])' = h
      BY <2>4, Zenon DEF AtWork
    <3>2. h \notin Dev
      BY <1>1, LifeCycleAssumption, ZenonT(40)
    <3>3. \A g \in Host :
            IF session'[g].made /\ g # h
            THEN f[g] \in PortalFile /\ session'[g].given = TextOf[f[g]] /\ session'[g].conns
            ELSE f[g] = None
      BY <1>1, <2>0, <2>3, LifeCycleAssumption DEF Describes
    <3>4. \A d \in Dev :
            IF file'[d].made /\ d # h THEN f[d] = file'[d].host /\ f[d] # h ELSE f[d] = None
      BY <1>1, <2>1, <2>7, <3>2, LifeCycleAssumption, ZenonT(40) DEF Describes
    <3> QED BY <2>4, <3>1, <3>3, <3>4, Zenon DEF Describes
  <2>11. CommandOK(adm[a])'
    BY <1>1, <2>1, <2>3, <2>4, <2>10, ZenonT(40) DEF CommandOK, Reads
  <2> QED BY <2>5, <2>6, <2>8, <2>9, <2>11, OneCommand, Zenon
<1> QED BY <1>2, <1>3, Zenon DEF MkHost, h, f

(* What the write of a portal does to a session that was just made. *)
LEMMA PortalWritten ==
    ASSUME Shape, NEW h \in Host, NEW p \in Portal, NEW ok \in BOOLEAN,
           session[h] = NewSession, trigger[h] = "null", IS_session_create(h, p, ok)
    PROVE  /\ session' \in [Host -> {NoSession} \cup SessionRec]
           /\ session'[h].made /\ session'[h].given = p /\ session'[h].conns = ok
           /\ session'[h].cb_num = Servers[p]
           /\ \A g \in Host : g # h => session'[g] = session[g]
           /\ NUM_CB' = Servers[p] /\ NUM_CB' \in Nat
           /\ trigger' \in [Host -> {"null", "created", "awake", "running"}]
           /\ \A g \in Host :
                 trigger'[g] = IF g = h THEN (IF ok THEN "created" ELSE "null") ELSE trigger[g]
           /\ UNCHANGED <<up, loaded, file, stackbd, major_num, held>>
<1> DEFINE r == [session[h] EXCEPT !.portal = Servers[p], !.given = p,
                   !.cb_num = Servers[p], !.conns = ok]
<1>1. NewSession \in SessionRec
  BY DEF NewSession, SessionRec
<1>3. r \in SessionRec /\ r.made /\ r.given = p /\ r.conns = ok /\ r.cb_num = Servers[p]
  BY <1>1, LifeCycleAssumption, Zenon DEF SessionRec
<1>4. session' = [session EXCEPT ![h] = r]
  BY Zenon DEF IS_session_create, portal_parser, Shape
<1> HIDE DEF r
<1>5. /\ session' \in [Host -> {NoSession} \cup SessionRec] /\ session'[h] = r
      /\ \A g \in Host : g # h => session'[g] = session[g]
  BY <1>3, <1>4 DEF Shape
<1>6. /\ trigger' \in [Host -> {"null", "created", "awake", "running"}]
      /\ \A g \in Host :
            trigger'[g] = IF g = h THEN (IF ok THEN "created" ELSE "null") ELSE trigger[g]
  BY DEF IS_session_create, Shape
<1>7. /\ NUM_CB' = Servers[p] /\ NUM_CB' \in Nat
      /\ UNCHANGED <<up, loaded, file, stackbd, major_num, held>>
  BY LifeCycleAssumption DEF IS_session_create
<1> QED BY <1>3, <1>5, <1>6, <1>7, Zenon

LEMMA WritePortalOK ==
    ASSUME Tested, IInv, NEW a \in Adm, WritePortal(a) PROVE IInv'
<1> DEFINE h == adm[a].host
           f == adm[a].parser
           p == TextOf[adm[a].portal]
<1>0. /\ adm[a].pc = "portal" /\ Shape /\ CommandOK(adm[a]) /\ UNCHANGED <<ini, IS_indexes>>
      /\ adm[a] \in CommandRec
  BY Zenon DEF WritePortal, At, IInv, Shape
<1>1. /\ Describes(f, h) /\ ini = f /\ h \in Host /\ adm[a].portal \in PortalFile
      /\ \A s \in Host : f[s] # adm[a].portal
      /\ trigger[h] = "null" /\ session[h] = NewSession /\ p \in Portal
  BY <1>0, AdminAssumption, ZenonT(40) DEF CommandOK, AtWork, Reads
<1>n. NewSession.made /\ NewSession.given = None
  BY Zenon DEF NewSession
<1>2. PICK ok \in BOOLEAN :
         /\ portal_attr_store(h, p, ok)
         /\ IF ok THEN adm' = [adm EXCEPT ![a].pc = "save", ![a].parser[h] = adm[a].portal]
                  ELSE Go(a, "unhost")
  BY Zenon DEF WritePortal
<1> HIDE DEF h, f, p
<1>3. CASE IS_session_find_by_portal(p)
  <2>1. ~ok /\ UNCHANGED lifeVars
    BY <1>2, <1>3 DEF portal_attr_store
  <2>2. /\ adm' \in [Adm -> CommandRec]
        /\ adm'[a].pc = "unhost" /\ adm'[a].host = h
        /\ adm'[a].portal = adm[a].portal /\ adm'[a].parser = f
    BY <1>0, <1>2, <2>1, Goes, ZenonT(40) DEF h, f, p
  <2>3. up' /\ Shape' /\ ThreadsOK' /\ DevicesOK' /\ PortalsDistinct'
    BY <1>0, <2>1, <2>2, SameLife, Zenon DEF Shape
  <2>4. Describes(adm[a].parser, AtWork(adm[a]))'
    <3>1. AtWork(adm[a])' = h
      BY <2>2 DEF AtWork
    <3> QED BY <1>1, <2>1, <2>2, <3>1, ZenonT(40) DEF Describes, lifeVars
  <2>5. CommandOK(adm[a])'
    BY <1>0, <1>1, <1>n, <2>1, <2>2, <2>4, ZenonT(40) DEF CommandOK, Reads, lifeVars
  <2> QED BY <2>3, <2>5, OneCommand
<1>4. CASE ~IS_session_find_by_portal(p)
  <2>0. IS_session_create(h, p, ok)
    BY <1>2, <1>4 DEF portal_attr_store
  <2>1. /\ session' \in [Host -> {NoSession} \cup SessionRec]
        /\ session'[h].made /\ session'[h].given = p /\ session'[h].conns = ok
        /\ session'[h].cb_num = Servers[p]
        /\ \A g \in Host : g # h => session'[g] = session[g]
        /\ NUM_CB' = Servers[p] /\ NUM_CB' \in Nat
        /\ trigger' \in [Host -> {"null", "created", "awake", "running"}]
        /\ \A g \in Host :
              trigger'[g] = IF g = h THEN (IF ok THEN "created" ELSE "null") ELSE trigger[g]
        /\ UNCHANGED <<up, loaded, file, stackbd, major_num, held>>
    BY <1>0, <1>1, <2>0, PortalWritten, ZenonT(40)
  <2>u. file' = file
    BY <2>1, ZenonT(40)
  <2>2. loaded
    BY <1>1, <1>n, ZenonT(40) DEF IInv, ThreadsOK
  <2>3. \A g \in Host : g # h /\ session[g].made =>
           /\ f[g] \in PortalFile /\ session[g].given = TextOf[f[g]]
           /\ session[g].given \in Portal /\ session[g].given # p /\ session[g].given # None
           /\ session[g].conns /\ session[g].cb_num = Servers[p]
    <3>1. \A g \in Host : g # h /\ session[g].made =>
             f[g] \in PortalFile /\ session[g].given = TextOf[f[g]] /\ session[g].conns
      BY <1>1, ZenonT(40) DEF Describes
    <3>2. \A q \in PortalFile : TextOf[q] \in Portal /\ TextOf[q] # None
                                /\ (q # adm[a].portal => TextOf[q] # p)
      BY <1>1, LifeCycleAssumption, AdminAssumption DEF Tested, p
    <3>3. \A q \in Portal : Servers[q] = Servers[p]
      BY <1>1 DEF Tested
    <3>4. \A g \in Host : session[g].made /\ session[g].given # None =>
                              session[g].cb_num = Servers[session[g].given]
      BY DEF IInv, ThreadsOK
    <3>5. \A g \in Host : f[g] # adm[a].portal
      BY <1>1, ZenonT(40)
    <3> QED BY <3>1, <3>2, <3>3, <3>4, <3>5
  <2>4. \A d \in Dev : file[d].made => file[d].host \in Host /\ file[d].host # h
    BY <1>0, <1>1, Made, LifeCycleAssumption, ZenonT(40) DEF Describes
  <2>5. ThreadsOK'
    <3>1. loaded' /\ session'[h].made /\ session'[h].given = p /\ NUM_CB' = Servers[p]
          /\ session'[h].cb_num = Servers[p]
      BY <2>1, <2>2, ZenonT(40)
    <3>2. trigger'[h] # "null" => session'[h].conns
      BY <1>1, <2>1, ZenonT(40)
    <3>3. \A g \in Host : g # h =>
            /\ session'[g] = session[g] /\ (trigger'[g] # "null" => session[g].made)
            /\ session[g].made => session[g].cb_num = Servers[session[g].given]
      <4>1. \A g \in Host : trigger[g] # "null" => session[g].made
        BY ZenonT(40) DEF IInv, ThreadsOK
      <4>2. \A g \in Host : session[g].made /\ session[g].given # None =>
                                session[g].cb_num = Servers[session[g].given]
        BY DEF IInv, ThreadsOK
      <4>3. \A g \in Host : g # h => session'[g] = session[g] /\ trigger'[g] = trigger[g]
        BY <2>1
      <4> QED BY <2>3, <4>1, <4>2, <4>3, ZenonT(40)
    <3> QED BY <2>3, <3>1, <3>2, <3>3 DEF ThreadsOK
  <2>6. DevicesOK'
    BY <2>1, <2>4, ZenonT(40) DEF IInv, DevicesOK
  <2>7. PortalsDistinct'
    <3>1. /\ session'[h].made /\ session'[h].given = p
          /\ \A g \in Host : g # h => session'[g] = session[g]
      BY <2>1, ZenonT(40)
    <3> QED BY <2>3, <3>1 DEF IInv, PortalsDistinct, Hosts
  <2>8. CASE ~ok
    <3>2. /\ adm' \in [Adm -> CommandRec]
          /\ adm'[a].pc = "unhost" /\ adm'[a].host = h
          /\ adm'[a].portal = adm[a].portal /\ adm'[a].parser = f
      BY <1>0, <1>2, <2>8, Goes, Zenon DEF h, f, p
    <3>3. up' /\ Shape'
      BY <1>0, <2>1, <3>2 DEF IInv, Shape
    <3>4. Describes(adm[a].parser, AtWork(adm[a]))'
      <4>1. AtWork(adm[a])' = h
        BY <3>2 DEF AtWork
      <4>2. \A g \in Host :
              IF session'[g].made /\ g # h
              THEN f[g] \in PortalFile /\ session'[g].given = TextOf[f[g]] /\ session'[g].conns
              ELSE f[g] = None
        BY <1>1, <2>1, ZenonT(40) DEF Describes
      <4>3. \A d \in Dev :
              IF file'[d].made /\ d # h THEN f[d] = file'[d].host /\ f[d] # h ELSE f[d] = None
        BY <1>1, <2>1, ZenonT(40) DEF Describes
      <4> QED BY <3>2, <4>1, <4>2, <4>3, ZenonT(40) DEF Describes
    <3>5. CommandOK(adm[a])'
      <4>1. trigger'[h] = "null" /\ session'[h].made /\ session'[h].given = p /\ ini' = f
        BY <1>0, <1>1, <2>1, <2>8, ZenonT(40)
      <4> QED BY <1>1, <3>2, <3>4, <4>1, ZenonT(40) DEF CommandOK, Reads, h, f, p
    <3> QED BY <2>5, <2>6, <2>7, <3>3, <3>5, OneCommand, Zenon
  <2>9. CASE ok
    <3>1. f \in Text /\ f \in [Section -> Host \cup PortalFile \cup {None}] /\ h \in Section
      BY <1>0, <1>1, Zenon DEF CommandRec, Text, Section, h, f, p
    <3> DEFINE g == [f EXCEPT ![h] = adm[a].portal]
               c == [adm[a] EXCEPT !.pc = "save", !.parser = g]
    <3>2. g \in Text /\ \A s \in Section : g[s] = IF s = h THEN adm[a].portal ELSE f[s]
      BY <1>1, <3>1, LifeCycleAssumption DEF Text, Section
    <3>3. adm' = [adm EXCEPT ![a] = c]
      BY <1>0, <1>2, <2>9, Zenon DEF Shape, CommandRec, h, f, p
    <3>4. c \in CommandRec /\ c.pc = "save" /\ c.parser = g
      <4> HIDE DEF g
      <4> QED BY <1>0, <3>2, Zenon DEF CommandRec
    <3> HIDE DEF c, g
    <3>5. adm' \in [Adm -> CommandRec] /\ adm'[a].pc = "save" /\ adm'[a].parser = g
      BY <1>0, <3>3, <3>4, ZenonT(40) DEF Shape
    <3>6. up' /\ Shape'
      BY <1>0, <2>1, <3>5, ZenonT(40) DEF IInv, Shape
    <3>7. Describes(adm[a].parser, AtWork(adm[a]))'
      <4>1. AtWork(adm[a])' = None /\ None \notin Host \cup Dev
        BY <3>5, LifeCycleAssumption DEF AtWork
      <4>2. \A k \in Host :
              IF session'[k].made
              THEN g[k] \in PortalFile /\ session'[k].given = TextOf[g[k]] /\ session'[k].conns
              ELSE g[k] = None
        <5>1. g[h] = adm[a].portal /\ \A k \in Host : k # h => g[k] = f[k]
          BY <1>1, <3>2 DEF Section
        <5>2. session'[h].made /\ session'[h].given = TextOf[g[h]] /\ session'[h].conns
          BY <2>1, <2>9, <5>1, ZenonT(40) DEF h, f, p
        <5>3. \A k \in Host : k # h =>
                IF session[k].made
                THEN f[k] \in PortalFile /\ session[k].given = TextOf[f[k]] /\ session[k].conns
                ELSE f[k] = None
          BY <1>1, Zenon DEF Describes
        <5> QED BY <1>1, <2>1, <5>1, <5>2, <5>3, ZenonT(40)
      <4>3. \A d \in Dev : IF file'[d].made THEN g[d] = file'[d].host ELSE g[d] = None
        BY <1>1, <2>u, <3>2, LifeCycleAssumption, ZenonT(40) DEF Describes, Section
      <4>4. \A d \in Dev : file'[d].made => g[d] # None
        BY <2>u, <2>4, <4>1, <4>3
      <4> QED BY <3>5, <4>1, <4>2, <4>3, <4>4, Zenon DEF Describes
    <3>8. CommandOK(adm[a])'
      BY <3>5, <3>7, Zenon DEF CommandOK, Reads
    <3> QED BY <2>5, <2>6, <2>7, <3>6, <3>8, OneCommand
  <2> QED BY <2>8, <2>9
<1> QED BY <1>3, <1>4, Zenon
=============================================================================
