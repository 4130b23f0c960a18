--------------------------------- MODULE Boot ---------------------------------
(***************************************************************************)
(* The boot of the machine (main.rs), the counter that sends it into       *)
(* recovery mode (recovery.rs), and the packages it starts.  Power may     *)
(* fail at any moment; the disk stays as it was between two writes.        *)
(* fs::write empties the counter before it fills it, and an empty or       *)
(* unreadable counter counts as zero.  Writing it may fail, which is       *)
(* logged and no more, and so may starting a package.                      *)
(*                                                                         *)
(* Only the packages among the applications are named; the others are      *)
(* there at every boot, and recovery mode keeps the shell of them.         *)
(***************************************************************************)
EXTENDS Packages

CONSTANTS FAILURE_THRESHOLD,
          MaxFail            \* bound: power failures

ASSUME ThresholdAssumption == FAILURE_THRESHOLD \in Nat \ {0} /\ MaxFail \in Nat

VARIABLES
    boot_count,  \* the counter on the disk
    machine,     \* "off", the step of the boot, or "up"
    cmdline,     \* vyoma.recovery=1 is read on the kernel's command line
    read,        \* the counter as increment_boot_count read it
    recovery,    \* this boot's RECOVERY_MODE
    entries,     \* packages this boot has still to start
    refused,     \* history: packages its pass logged an error for instead
    outages,     \* bound counter: power failures so far
    unconfirmed, \* history: boots before this one, since one cleared the counter
    disturbed    \* history: one of them, or this one, could not count itself
count   == <<boot_count, read>>
history == <<refused, unconfirmed, disturbed>>
bvars   == <<count, machine, cmdline, recovery, entries, outages, history>>
vars    == <<pvars, bvars>>

Init == /\ PackagesInit
        /\ boot_count = 0 /\ machine = "off" /\ cmdline = FALSE /\ read = 0
        /\ recovery = FALSE /\ entries = {} /\ refused = {} /\ outages = 0
        /\ unconfirmed = 0 /\ disturbed = FALSE

(* An error of any kind counts as zero.                                    *)
read_boot_count == {boot_count} \union IF sound THEN {} ELSE {0}

-----------------------------------------------------------------------------
(* main, step by step                                                      *)

PowerOn ==
    /\ machine = "off" /\ machine' = "read_count"
    /\ cmdline' \in BOOLEAN
    /\ UNCHANGED <<pvars, count, recovery, entries, outages, history>>

ReadCount ==
    /\ machine = "read_count" /\ machine' = "empty_count"
    /\ read' \in read_boot_count
    /\ UNCHANGED <<pvars, boot_count, cmdline, recovery, entries, outages, history>>

EmptyCount ==
    /\ machine = "empty_count" /\ machine' = "fill_count"
    /\ boot_count' = 0
    /\ UNCHANGED <<pvars, read, cmdline, recovery, entries, outages, history>>

FillCount ==
    /\ machine = "fill_count" /\ machine' = "check"
    /\ boot_count' = read + 1 /\ read' = 0
    /\ UNCHANGED <<pvars, cmdline, recovery, entries, outages, history>>

(* An error leaves the old counter, or an empty one.                       *)
CountFails ==
    /\ machine \in {"empty_count", "fill_count"} /\ machine' = "check"
    /\ read' = 0
    /\ disturbed' = TRUE
    /\ UNCHANGED <<pvars, boot_count, cmdline, recovery, entries, outages, refused, unconfirmed>>

CheckRecovery ==
    /\ machine = "check" /\ machine' = "merge"
    /\ \E c \in read_boot_count : recovery' = (cmdline \/ c >= FAILURE_THRESHOLD)
    /\ UNCHANGED <<pvars, count, cmdline, entries, outages, history>>

(* A listed package without a manifest is skipped.                         *)
MergeInstalled ==
    /\ machine = "merge" /\ machine' = "spawn"
    /\ \E list \in read_installed_apps :
         entries' = IF recovery THEN {} ELSE {p \in list \ {Junk} : manifest[p] # "none"}
    /\ UNCHANGED <<pvars, count, cmdline, recovery, outages, history>>

(* The runtime is given the package, or its manifest, its digest or the    *)
(* system refuses it, which is logged; either way the boot goes on.        *)
SpawnEntry(p) ==
    /\ machine = "spawn" /\ p \in entries
    /\ entries' = entries \ {p}
    /\ \/ started' = started \union {p} /\ UNCHANGED refused
       \/ refused' = refused \union {p} /\ UNCHANGED started
    /\ UNCHANGED <<disk, handler, sound, count, machine, cmdline, recovery, outages,
                   unconfirmed, disturbed>>

\* Mutant: the pass is repeated until everything listed has been started.
AllSpawnedRetries ==
    /\ machine = "spawn" /\ entries = {}
    /\ machine' = IF installed \subseteq started THEN "clear_count" ELSE "merge"
    /\ UNCHANGED <<pvars, count, cmdline, recovery, entries, outages, history>>

AllSpawned ==
    /\ machine = "spawn" /\ entries = {}
    /\ machine' = "clear_count"
    /\ UNCHANGED <<pvars, count, cmdline, recovery, entries, outages, history>>

\* Mutant: a boot in recovery mode is no success.
ClearCountNormal ==
    /\ machine = "clear_count" /\ machine' = "up"
    /\ boot_count' = IF recovery THEN boot_count ELSE 0
    /\ unconfirmed' = 0 /\ disturbed' = FALSE /\ refused' = {}
    /\ UNCHANGED <<pvars, read, cmdline, recovery, entries, outages>>

ClearCount ==
    /\ machine = "clear_count" /\ machine' = "up"
    /\ boot_count' = 0
    /\ unconfirmed' = 0 /\ disturbed' = FALSE /\ refused' = {}
    /\ UNCHANGED <<pvars, read, cmdline, recovery, entries, outages>>

(* The counter is not written: the next boot counts this one as failed.    *)
ClearFails ==
    /\ machine = "clear_count" /\ machine' = "up"
    /\ unconfirmed' = unconfirmed + 1 /\ refused' = {}
    /\ UNCHANGED <<pvars, count, cmdline, recovery, entries, outages, disturbed>>

BootStep == \/ PowerOn \/ ReadCount \/ EmptyCount \/ FillCount \/ CountFails \/ CheckRecovery
            \/ MergeInstalled \/ (\E p \in Pkg : SpawnEntry(p)) \/ AllSpawned
            \/ ClearCount \/ ClearFails

(* Commands come once the applications' reader threads run: of packages,   *)
(* and recovery-exit.                                                      *)
Command ==
    /\ machine = "up"
    /\ PackagesNext
    /\ UNCHANGED bvars

RecoveryExit ==
    /\ machine = "up"
    /\ boot_count' = 0
    /\ unconfirmed' = 0 /\ disturbed' = FALSE
    /\ UNCHANGED <<pvars, read, machine, cmdline, recovery, entries, outages, refused>>

(* Power fails, the supervisor dies, or it exits because boot.toml cannot  *)
(* be read.                                                                *)
PowerFails ==
    /\ machine # "off" /\ machine' = "off" /\ outages < MaxFail
    /\ outages' = outages + 1
    /\ unconfirmed' = IF machine = "up" THEN unconfirmed ELSE unconfirmed + 1
    /\ disturbed' = (disturbed \/ machine \in {"read_count", "empty_count", "fill_count"})
    /\ cmdline' = FALSE /\ read' = 0 /\ recovery' = FALSE
    /\ started' = {} /\ entries' = {} /\ refused' = {}
    /\ handler' = [h \in Handler |-> Idle]
    /\ UNCHANGED <<disk, sound, boot_count>>

Next == BootStep \/ Command \/ RecoveryExit \/ PowerFails

(* A machine that is off is switched on, and the boot goes on by itself.   *)
Spec == Init /\ [][Next]_vars /\ WF_vars(BootStep)

-----------------------------------------------------------------------------
(* While the machine is off or booting there are no commands and, before   *)
(* the spawn pass, no processes of packages.                               *)
TypeOK ==
    /\ \A p \in Pkg : {manifest[p], binary[p]} \subseteq {"none", "part", "whole"}
    /\ boot_count \in 0 .. MaxFail + 1 /\ read \in 0 .. MaxFail
    /\ started \union entries \subseteq Pkg
    /\ installed \subseteq Pkg \union {Junk} /\ open \subseteq installed
    /\ machine # "up" => \A h \in Handler : handler[h] = Idle
    /\ machine \notin {"spawn", "clear_count", "up"} => started = {}
    /\ machine # "spawn" => entries = {}

(* A machine goes into recovery mode only if it is told to or this boot    *)
(* and those before it that ended without clearing the counter make        *)
(* FAILURE_THRESHOLD; and if they do, it goes, unless one of them could    *)
(* not write the counter or it cannot be read.  The boot that compares is  *)
(* one of the FAILURE_THRESHOLD, which recovery.rs:17 does not say.        *)
RecoveryWhenDue ==
    machine \in {"merge", "spawn", "clear_count"} =>
        /\ recovery => cmdline \/ unconfirmed + 1 >= FAILURE_THRESHOLD
        /\ sound /\ ~disturbed /\ unconfirmed + 1 >= FAILURE_THRESHOLD => recovery

(* Whatever outage or error cut an install or a removal short, and         *)
(* wherever it was taken up again, a listed package has both its files.    *)
(* For one command at a time, and a list that can be read.                 *)
ListedIsWhole == sound => \A p \in installed \ {Junk} : Whole(p)

(* A boot that is not in recovery mode leaves out none of the packages     *)
(* listed: when it clears the counter each has been started, or an error   *)
(* of its own was logged (main.rs:415-428).                                *)
NoneLeftOut ==
    sound /\ machine = "clear_count" /\ ~recovery =>
        installed \ {Junk} \subseteq started \union refused

(* Once outages end, the machine comes up, whatever they left on the disk. *)
ComesUp == <>[](machine = "up")
===============================================================================
