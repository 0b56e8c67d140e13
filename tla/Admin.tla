------------------------------- MODULE Admin --------------------------------
(***************************************************************************)
(* nbdxadm: each command reads infiniswap.ini, works on the directories of *)
(* configfs and writes the file back when it succeeded.  ini and a         *)
(* command's parser map a section to its one option: the section of a host *)
(* to its portal file, the section of a device to its host.                *)
(***************************************************************************)
EXTENDS LifeCycle

CONSTANTS
    Adm,        \* commands that may run at a time
    PortalFile, \* paths given with -p
    TextOf,     \* the text each of them holds
    MaxIndexes  \* bound: devices created while the module is loaded

ASSUME AdminAssumption ==
    /\ TextOf \in [PortalFile -> Portal] /\ None \notin PortalFile
    /\ MaxIndexes \in Nat

VARIABLES
    ini,        \* infiniswap.ini
    adm,        \* the command of each administrator
    IS_indexes  \* the index of the next device

vars == <<up, loaded, session, file, trigger, NUM_CB, stackbd, major_num, held,
          ini, adm, IS_indexes>>

Section == Host \cup Dev
NoSections == [s \in Section |-> None]
Sections(f) == {s \in Section : f[s] # None}
get_host_devices(h, f) == {d \in Dev : f[d] = h}

(* pc is the next call of a command; parser its copy of the file.          *)
Idle == [pc |-> "idle", host |-> None, dev |-> None, portal |-> None,
         parser |-> NoSections]

Go(a, pc) == adm' = [adm EXCEPT ![a].pc = pc]
Exit(a) == adm' = [adm EXCEPT ![a] = Idle]
At(a, pc) == up /\ adm[a].pc = pc

Init ==
    /\ LifeInit
    /\ ini = NoSections /\ IS_indexes = 0
    /\ adm = [a \in Adm |-> Idle]

-----------------------------------------------------------------------------
(* Mutant: what is left from before a restart is kept. *)
ReadIni_kept == ini

(* main before the operation: a file with sections and an empty directory  *)
(* are left from before a restart, and the file is cleared.                *)
ReadIni == IF Hosts = {} THEN NoSections ELSE ini

(* main up to the first call of the operation; one whose checks on the     *)
(* file fail ends there.                                                   *)
Start(a, pc, h, d, p, ok) ==
    /\ At(a, "idle") /\ loaded
    /\ ini' = ReadIni
    /\ adm' = IF ok THEN [adm EXCEPT ![a] = [pc |-> pc, host |-> h, dev |-> d,
                                             portal |-> p, parser |-> ReadIni]]
                     ELSE adm
    /\ UNCHANGED lifeVars /\ UNCHANGED IS_indexes

(* Mutant: the portal files of the other hosts are not looked at. *)
createHost_portal(a, h, p) == Start(a, "mkhost", h, None, p, ReadIni[h] = None)

createHost(a, h, p) ==
    Start(a, "mkhost", h, None, p,
          ReadIni[h] = None /\ \A s \in Host : ReadIni[s] # p)

(* The backup disk is one: a second device is unsafe administration.       *)
createDevice(a, h, d) ==
    /\ Devs = {} \/ "second_device" \in Faults
    /\ IS_indexes < MaxIndexes /\ Cardinality(held) < MaxMajors
    /\ Start(a, "mkdev", h, d, None, ReadIni[h] # None /\ ReadIni[d] = None)

deleteDevice(a, d) == Start(a, "rmdev", ReadIni[d], d, None, ReadIni[d] # None)

(* So is the deletion of a host whose thread runs.                         *)
deleteHost(a, h) ==
    /\ trigger[h] \notin {"awake", "running"} \/ "teardown" \in Faults
    /\ Start(a, "rmhost", h, None, None, ReadIni[h] # None)

-----------------------------------------------------------------------------
(* os.makedirs raises what no command catches: the command ends there.     *)
MkHost(a) ==
    /\ At(a, "mkhost")
    /\ IF adm[a].host \in Hosts \/ ~loaded
       THEN Exit(a) /\ UNCHANGED lifeVars
       ELSE \/ IS_session_make_group(adm[a].host) /\ Go(a, "portal")
            \/ "alloc" \in Faults /\ UNCHANGED lifeVars /\ Exit(a)
    /\ UNCHANGED <<ini, IS_indexes>>

WritePortal(a) ==
    /\ At(a, "portal")
    /\ \E ok \in BOOLEAN :
          /\ portal_attr_store(adm[a].host, TextOf[adm[a].portal], ok)
          /\ IF ok THEN adm' = [adm EXCEPT ![a].pc = "save",
                                           ![a].parser[adm[a].host] = adm[a].portal]
                   ELSE Go(a, "unhost")
    /\ UNCHANGED <<ini, IS_indexes>>

(* os.makedirs makes the directory of the host too when it is missing.     *)
MkDev(a) ==
    /\ At(a, "mkdev")
    /\ IF adm[a].dev \in Devs \/ ~loaded
       THEN Exit(a) /\ UNCHANGED lifeVars
       ELSE \/ IF adm[a].host \in Hosts
               THEN IS_device_make_group(adm[a].host, adm[a].dev) /\ Go(a, "device")
               ELSE IS_session_make_group(adm[a].host) /\ UNCHANGED adm
            \/ "alloc" \in Faults /\ UNCHANGED lifeVars /\ Exit(a)
    /\ UNCHANGED <<ini, IS_indexes>>

(* The store returns once the thread has been woken.                       *)
WriteDevice(a) ==
    /\ At(a, "device") /\ adm[a].dev \in Devs
    /\ \E ok \in BOOLEAN :
          /\ device_attr_store(adm[a].dev, ok)
          /\ IF ok THEN adm' = [adm EXCEPT ![a].pc = "sleep",
                                           ![a].parser[adm[a].dev] = adm[a].host]
                   ELSE Go(a, "undev")
    /\ IS_indexes' = IF IS_file_find(adm[a].dev, adm[a].dev) THEN IS_indexes ELSE IS_indexes + 1
    /\ UNCHANGED ini

WakeTrigger(a) ==
    /\ At(a, "sleep")
    /\ wake_up_process(adm[a].dev)
    /\ Go(a, "save")
    /\ UNCHANGED <<ini, IS_indexes>>

RmDev(a) ==
    /\ At(a, "rmdev") \/ At(a, "undev")
    /\ IF adm[a].dev \in Devs
       THEN /\ IS_device_drop(adm[a].dev)
            /\ IF adm[a].pc = "undev" THEN Exit(a)
               ELSE adm' = [adm EXCEPT ![a].pc = "save", ![a].parser[adm[a].dev] = None]
       ELSE Exit(a) /\ UNCHANGED lifeVars
    /\ UNCHANGED <<ini, IS_indexes>>

(* deleteHost deletes the devices in its file one after the other, then    *)
(* the host; a directory that is not empty stays.                          *)
RmHost(a) ==
    /\ At(a, "rmhost") \/ At(a, "unhost")
    /\ LET h == adm[a].host
           ds == get_host_devices(h, adm[a].parser)
       IN IF adm[a].pc = "rmhost" /\ ds # {}
          THEN \E d \in ds :
                  IF d \in Devs
                  THEN /\ IS_device_drop(d)
                       /\ adm' = [adm EXCEPT ![a].parser[d] = None]
                  ELSE Exit(a) /\ UNCHANGED lifeVars
          ELSE IF h \in Hosts /\ \A d \in Devs : file[d].host # h
               THEN /\ IS_session_drop(h)
                    /\ IF adm[a].pc = "unhost" THEN Exit(a)
                       ELSE adm' = [adm EXCEPT ![a].pc = "save", ![a].parser[h] = None]
               ELSE Exit(a) /\ UNCHANGED lifeVars
    /\ UNCHANGED <<ini, IS_indexes>>

(* The file is written last; a command that is killed has not written it.  *)
Save(a) ==
    /\ At(a, "save")
    /\ ini' \in {adm[a].parser} \cup (IF "kill" \in Faults THEN {ini} ELSE {})
    /\ Exit(a)
    /\ UNCHANGED lifeVars /\ UNCHANGED IS_indexes

Command(a) ==
    \/ \E h \in Host, p \in PortalFile : createHost(a, h, p)
    \/ \E h \in Host, d \in Dev : createDevice(a, h, d)
    \/ \E d \in Dev : deleteDevice(a, d)
    \/ \E h \in Host : deleteHost(a, h)

Work(a) ==
    \/ MkHost(a) \/ WritePortal(a) \/ MkDev(a) \/ WriteDevice(a) \/ WakeTrigger(a)
    \/ RmDev(a) \/ RmHost(a) \/ Save(a)

modprobe == IS_init_module /\ IS_indexes' = 0 /\ UNCHANGED <<ini, adm>>
modprobe_r == IS_cleanup_module /\ UNCHANGED <<ini, adm, IS_indexes>>

(* A restart ends every command; the file is what survives it.             *)
Restart ==
    /\ Reboot
    /\ adm' = [a \in Adm |-> Idle] /\ IS_indexes' = 0
    /\ UNCHANGED ini

Threads == \E h \in Host : rdma_trigger(h) /\ UNCHANGED <<ini, adm, IS_indexes>>

Next ==
    \/ modprobe \/ modprobe_r \/ Restart \/ Threads
    \/ \E a \in Adm : Command(a) \/ Work(a)

(* The calls of a command return and the kernel schedules its threads.     *)
Spec ==
    /\ Init /\ [][Next]_vars
    /\ \A a \in Adm : WF_vars(Work(a))
    /\ \A h \in Host : WF_vars(rdma_trigger(h) /\ UNCHANGED <<ini, adm, IS_indexes>>)

-----------------------------------------------------------------------------
Quiet == \A a \in Adm : adm[a].pc = "idle"

(* When no command runs and there are directories, infiniswap.ini has one  *)
(* section for each of them, with the portal and the host they were made   *)
(* with, whatever failed and was rolled back and however often the machine *)
(* restarted before.                                                       *)
IniMatches ==
    Quiet /\ up /\ Hosts # {} =>
        /\ Sections(ini) = Hosts \cup Devs
        /\ \A h \in Hosts : TextOf[ini[h]] = session[h].given
        /\ \A d \in Devs : ini[d] = file[d].host

(* A device in state running can serve requests: its disk was added, its   *)
(* queues are allocated, its session is connected, and the backup disk it  *)
(* diverts to is there with its thread.  When no device has a disk nothing *)
(* of the backup disk is left either.                                      *)
RunningIsComplete ==
    up =>
        /\ \A d \in Devs : file[d].state = "RUNNING" =>
              /\ file[d].disk = "added" /\ file[d].queues = "live"
              /\ file[d].host \in Hosts /\ session[file[d].host].conns
              /\ stackbd = [is_active |-> TRUE, thread |-> TRUE, gd |-> TRUE]
        /\ (\A d \in Devs : file[d].disk = "null") => ~stackbd.thread /\ ~stackbd.gd

(* No two sessions use the same servers, as IS_session_find_by_portal and  *)
(* nbdxadm are there to make sure.                                         *)
PortalsDistinct ==
    \A g, h \in Hosts : g # h /\ session[g].given # None => session[g].given # session[h].given

(* No command, restart or failure of a call makes the module use what it   *)
(* has freed, never allocated or never registered.                         *)
NoOops == up

(* The trigger thread of a device that runs is at work, unless the machine *)
(* restarts first.                                                         *)
TriggerStarts ==
    \A h \in Host, d \in Dev :
        (file[d].made /\ file[d].host = h /\ file[d].state = "RUNNING")
            ~> (trigger[h] = "running" \/ ~loaded)
=============================================================================
