------------------------------ MODULE BootProofs ------------------------------
(***************************************************************************)
(* Proofs about Boot, for every catalogue of packages, every threshold and *)
(* any number of outages and write errors.  The counter on the disk stays  *)
(* within the number of boots that did not clear it, and follows it where  *)
(* nothing disturbed them, which each step of the boot must keep; the list *)
(* of packages is followed through the file operations of the one command  *)
(* that is under way.                                                      *)
(***************************************************************************)
EXTENDS Boot, TLAPS

(* Where the boot has not counted itself, and where it has.                *)
Before == {"off", "read_count", "empty_count", "up"}
Counted == {"check", "merge", "spawn", "clear_count"}

(* The counter at every step of the boot, between the halves of fs::write  *)
(* too, where the disk holds nothing and the program what it read: never   *)
(* above the boots there were, and equal if all of them could write it.    *)
CountInv ==
    /\ boot_count \in Nat /\ unconfirmed \in Nat /\ read \in Nat
    /\ machine \in Before \union Counted \union {"fill_count"}
    /\ machine \in Before => boot_count <= unconfirmed
    /\ machine \in {"empty_count", "fill_count"} => read <= unconfirmed
    /\ machine = "fill_count" => boot_count = 0
    /\ machine \in Counted => boot_count <= unconfirmed + 1
    /\ sound /\ ~disturbed =>
         /\ machine \in Before => boot_count = unconfirmed
         /\ machine \in {"empty_count", "fill_count"} => read = unconfirmed
         /\ machine \in Counted => boot_count = unconfirmed + 1

(* The mode of the boot is the one its counter asked for, or the normal    *)
(* one where the counter could not be read.                                *)
ModeInv ==
    machine \in {"merge", "spawn", "clear_count"} =>
        /\ recovery => cmdline \/ boot_count >= FAILURE_THRESHOLD
        /\ sound /\ boot_count >= FAILURE_THRESHOLD => recovery

LEMMA InitCount == Init => CountInv /\ ModeInv
  BY DEF Init, PackagesInit, CountInv, ModeInv, Before, Counted

(* A command does not touch the counter, and every step of the boot and    *)
(* every outage takes it along with the boots it counts.                   *)
LEMMA StepKeepsCount == CountInv /\ [Next]_vars => CountInv'
<1> SUFFICES ASSUME CountInv, [Next]_vars PROVE CountInv'
  OBVIOUS
<1> USE DEF Before, Counted
<1>1. CASE PowerOn
  BY <1>1 DEF PowerOn, CountInv, pvars, count, history
<1>2. CASE ReadCount
  BY <1>2 DEF ReadCount, read_boot_count, CountInv, pvars, history
<1>3. CASE EmptyCount
  BY <1>3 DEF EmptyCount, CountInv, pvars, history
<1>4. CASE FillCount
  BY <1>4 DEF FillCount, CountInv, pvars, history
<1>5. CASE CountFails
  BY <1>5 DEF CountFails, CountInv, pvars
<1>6. CASE CheckRecovery
  BY <1>6 DEF CheckRecovery, CountInv, pvars, count, history
<1>7. CASE MergeInstalled
  BY <1>7 DEF MergeInstalled, CountInv, pvars, count, history
<1>8. ASSUME NEW p \in Pkg, SpawnEntry(p) PROVE CountInv'
  BY <1>8 DEF SpawnEntry, CountInv, count
<1>9. CASE AllSpawned
  BY <1>9 DEF AllSpawned, CountInv, pvars, count, history
<1>10. CASE ClearCount \/ ClearFails \/ RecoveryExit
  BY <1>10 DEF ClearCount, ClearFails, RecoveryExit, CountInv, pvars, count
<1>11. CASE Command
  <2>1. sound' = sound
    BY <1>11 DEF Command, PackagesNext, Install, Remove, Step, CopyManifest, CopyBinary, AppendName,
                 AppendNewline, InstallFails, Launch, Kill, ReadInstalled, EmptyList, FillList,
                 RewriteFails, Delete
  <2> QED BY <1>11, <2>1 DEF Command, bvars, count, history, CountInv
<1>12. CASE PowerFails
  <2>1. /\ machine # "off" /\ machine' = "off" /\ boot_count' = boot_count /\ sound' = sound
        /\ read' = 0 /\ unconfirmed' = IF machine = "up" THEN unconfirmed ELSE unconfirmed + 1
    BY <1>12 DEF PowerFails
  <2>2. ~disturbed' => ~disturbed /\ machine \notin {"read_count", "empty_count", "fill_count"}
    BY <1>12, Zenon DEF PowerFails
  <2> QED BY <2>1, <2>2 DEF CountInv
<1>13. CASE UNCHANGED vars
  BY <1>13 DEF vars, pvars, bvars, count, history, CountInv
<1> QED
  BY <1>1, <1>2, <1>3, <1>4, <1>5, <1>6, <1>7, <1>8, <1>9, <1>10, <1>11, <1>12, <1>13
     DEF Next, BootStep

(* Neither the counter nor the command line changes between the test and   *)
(* the end of the boot.                                                    *)
LEMMA StepKeepsMode == CountInv /\ ModeInv /\ [Next]_vars => ModeInv'
<1> SUFFICES ASSUME CountInv, ModeInv, [Next]_vars PROVE ModeInv'
  OBVIOUS
<1>1. CASE CheckRecovery
  <2>1. PICK c \in read_boot_count : recovery' = (cmdline \/ c >= FAILURE_THRESHOLD)
    BY <1>1 DEF CheckRecovery
  <2>2. recovery' <=> cmdline \/ c >= FAILURE_THRESHOLD
    BY <2>1, Zenon
  <2>3. machine' = "merge" /\ UNCHANGED <<cmdline, boot_count, sound>>
    BY <1>1 DEF CheckRecovery, pvars, count
  <2>4. c = boot_count \/ (~sound /\ c = 0)
    BY DEF read_boot_count
  <2> QED
    BY <2>2, <2>3, <2>4, ThresholdAssumption DEF CountInv, ModeInv
<1>2. ASSUME MergeInstalled \/ AllSpawned \/ (\E p \in Pkg : SpawnEntry(p))
      PROVE  ModeInv'
  BY <1>2 DEF MergeInstalled, AllSpawned, SpawnEntry, ModeInv, pvars, count
<1>3. ASSUME \/ PowerOn \/ ReadCount \/ EmptyCount \/ FillCount \/ CountFails
             \/ ClearCount \/ ClearFails \/ RecoveryExit \/ Command \/ PowerFails
      PROVE  ModeInv'
  BY <1>3 DEF PowerOn, ReadCount, EmptyCount, FillCount, CountFails, ClearCount, ClearFails,
              RecoveryExit, Command, PowerFails, bvars, ModeInv
<1>4. CASE UNCHANGED vars
  BY <1>4 DEF vars, pvars, bvars, count, ModeInv
<1> QED
  BY <1>1, <1>2, <1>3, <1>4 DEF Next, BootStep

(* A boot goes into recovery mode only if it is told to or it is the       *)
(* FAILURE_THRESHOLDth, or a later one, of which none has cleared the      *)
(* counter, and does so unless one of them could not write it or it cannot *)
(* be read.                                                                *)
THEOREM RecoveryIsDue == Spec => []RecoveryWhenDue
<1>1. CountInv /\ ModeInv => RecoveryWhenDue
  BY ThresholdAssumption DEF CountInv, ModeInv, RecoveryWhenDue, Counted
<1> QED
  BY InitCount, StepKeepsCount, StepKeepsMode, <1>1, PTL DEF Spec

-----------------------------------------------------------------------------
(* Where a command is, and what it has done to the files of its package.   *)
Early == {"copy_manifest", "manifest", "copy_binary", "binary", "append", "newline", "launch",
          "kill", "read"}
Late  == {"empty_list", "fill_list", "delete"}
Line == Pkg \union {Junk}
Commands ==
    [pc : {"idle"}] \union [pc : Early, pkg : Pkg] \union [pc : Late, pkg : Pkg, kept : SUBSET Line]

PackageOf(h) ==
    /\ handler[h].pc \in {"copy_manifest", "manifest", "copy_binary", "binary", "delete"} =>
         pkg(h) \notin installed
    /\ At(h, "binary") => manifest[pkg(h)] = "whole"
    /\ At(h, "append") => Whole(pkg(h))
    /\ At(h, "empty_list") => handler[h].kept \subseteq installed \ {pkg(h)}
    /\ At(h, "fill_list") => /\ installed = {}
                             /\ pkg(h) \notin handler[h].kept
                             /\ \A p \in handler[h].kept \ {Junk} : Whole(p)

FilesInv ==
    /\ manifest \in [Pkg -> {"none", "part", "whole"}]
    /\ binary \in [Pkg -> {"none", "part", "whole"}]
    /\ handler \in [Handler -> Commands]
    /\ installed \subseteq Line
    /\ sound => /\ \A p \in installed \ {Junk} : Whole(p)
                /\ \A h \in Handler : PackageOf(h)

(* One application at a time gives commands.                               *)
Sequential == \A g, h \in Handler : g = h

LEMMA InitFiles == Init => FilesInv
  BY DEF Init, PackagesInit, FilesInv, PackageOf, At, Idle, Commands, Line

(* A command that goes on keeps its package, and the packages to keep.     *)
LEMMA GoesOn ==
  ASSUME handler \in [Handler -> Commands], NEW h \in Handler,
         NEW pc, Goto(h, pc),
         \/ handler[h].pc \in Early /\ pc \in Early
         \/ handler[h].pc \in Late /\ pc \in Late
  PROVE  /\ handler' \in [Handler -> Commands]
         /\ handler'[h].pc = pc /\ handler'[h].pkg = pkg(h) /\ pkg(h) \in Pkg
         /\ pc \in Late => handler'[h].kept = handler[h].kept /\ handler[h].kept \subseteq Line
<1>1. CASE handler[h].pc \in Early /\ pc \in Early
  <2>1. handler[h] \in [pc : Early, pkg : Pkg]
    BY <1>1 DEF Commands, Early, Late
  <2> QED BY <1>1, <2>1 DEF Commands, Early, Late, Goto, pkg
<1>2. CASE handler[h].pc \in Late /\ pc \in Late
  <2>1. handler[h] \in [pc : Late, pkg : Pkg, kept : SUBSET Line]
    BY <1>2 DEF Commands, Early, Late
  <2> QED BY <1>2, <2>1 DEF Commands, Early, Late, Goto, pkg
<1> QED BY <1>1, <1>2

LEMMA Ends ==
  ASSUME handler \in [Handler -> Commands], NEW h \in Handler, Done(h)
  PROVE  handler' \in [Handler -> Commands] /\ handler'[h].pc = "idle"
  BY DEF Done, Idle, Commands

LEMMA StepKeepsFiles ==
  ASSUME Sequential, FilesInv, NEW h \in Handler, Step(h)
  PROVE  FilesInv'
<1> DEFINE File == {"none", "part", "whole"}
<1> DEFINE Listed == /\ \A p \in installed \ {Junk} : Whole(p)
                     /\ PackageOf(h)
<1>0. /\ \A g \in Handler : g = h
      /\ manifest \in [Pkg -> File]
      /\ binary \in [Pkg -> File]
      /\ handler \in [Handler -> Commands]
      /\ installed \subseteq Line
      /\ sound => Listed
  BY DEF Sequential, FilesInv
<1>j. Junk \notin Pkg
  BY JunkAssumption
<1>s. SUFFICES /\ manifest' \in [Pkg -> File]
               /\ binary' \in [Pkg -> File]
               /\ handler' \in [Handler -> Commands]
               /\ installed' \subseteq Line
               /\ sound' = sound
               /\ sound => Listed'
  BY <1>0 DEF FilesInv
<1> USE DEF PackageOf, At, Whole, pkg
<1>1. CASE CopyManifest(h)
  <2>1. CASE At(h, "copy_manifest")
    <3>1. /\ manifest' \in [Pkg -> File] /\ binary' \in [Pkg -> File]
          /\ handler' \in [Handler -> Commands]
      BY <1>0, <1>1, <2>1, GoesOn DEF CopyManifest, Early, Late
    <3>2. ASSUME sound PROVE Listed'
      <4>1. \A p \in installed' \ {Junk} : Whole(p)'
        BY <1>0, <1>j, <1>1, <2>1, <3>2, GoesOn DEF CopyManifest, Early, Late, Line
      <4>2. PackageOf(h)'
        BY <1>0, <1>j, <1>1, <2>1, <3>2, GoesOn DEF CopyManifest, Early, Late
      <4> QED BY <4>1, <4>2
    <3> QED BY <1>0, <1>1, <3>1, <3>2 DEF CopyManifest
  <2>2. CASE At(h, "manifest")
    <3>1. /\ manifest' \in [Pkg -> File] /\ binary' \in [Pkg -> File]
          /\ handler' \in [Handler -> Commands]
      BY <1>0, <1>1, <2>2, GoesOn DEF CopyManifest, Early, Late
    <3>2. ASSUME sound PROVE Listed'
      <4>1. \A p \in installed' \ {Junk} : Whole(p)'
        BY <1>0, <1>j, <1>1, <2>2, <3>2, GoesOn DEF CopyManifest, Early, Late, Line
      <4>2. PackageOf(h)'
        BY <1>0, <1>j, <1>1, <2>2, <3>2, GoesOn DEF CopyManifest, Early, Late
      <4> QED BY <4>1, <4>2
    <3> QED BY <1>0, <1>1, <3>1, <3>2 DEF CopyManifest
  <2> QED BY <1>1, <2>1, <2>2 DEF CopyManifest
<1>2. CASE CopyBinary(h)
  <2>1. CASE At(h, "copy_binary")
    <3>1. /\ manifest' \in [Pkg -> File] /\ binary' \in [Pkg -> File]
          /\ handler' \in [Handler -> Commands]
      BY <1>0, <1>2, <2>1, GoesOn DEF CopyBinary, Early, Late
    <3>2. ASSUME sound PROVE Listed'
      <4>1. \A p \in installed' \ {Junk} : Whole(p)'
        BY <1>0, <1>j, <1>2, <2>1, <3>2, GoesOn DEF CopyBinary, Early, Late, Line
      <4>2. PackageOf(h)'
        BY <1>0, <1>j, <1>2, <2>1, <3>2, GoesOn DEF CopyBinary, Early, Late
      <4> QED BY <4>1, <4>2
    <3> QED BY <1>0, <1>2, <3>1, <3>2 DEF CopyBinary
  <2>2. CASE At(h, "binary")
    <3>1. /\ manifest' \in [Pkg -> File] /\ binary' \in [Pkg -> File]
          /\ handler' \in [Handler -> Commands]
      BY <1>0, <1>2, <2>2, GoesOn DEF CopyBinary, Early, Late
    <3>2. ASSUME sound PROVE Listed'
      <4>1. \A p \in installed' \ {Junk} : Whole(p)'
        BY <1>0, <1>j, <1>2, <2>2, <3>2, GoesOn DEF CopyBinary, Early, Late, Line
      <4>2. PackageOf(h)'
        BY <1>0, <1>j, <1>2, <2>2, <3>2, GoesOn DEF CopyBinary, Early, Late
      <4> QED BY <4>1, <4>2
    <3> QED BY <1>0, <1>2, <3>1, <3>2 DEF CopyBinary
  <2> QED BY <1>2, <2>1, <2>2 DEF CopyBinary
<1>3. CASE InstallFails(h)
  BY <1>0, <1>3, Ends DEF InstallFails, disk
<1>4. CASE AppendName(h)
  <2>1. CASE open = {}
    BY <1>0, <1>4, <2>1, GoesOn DEF AppendName, Early, Late, Line
  <2>2. CASE open # {}
    BY <1>0, <1>4, <2>2, GoesOn DEF AppendName, Early, Late, Line
  <2> QED BY <2>1, <2>2
<1>5. CASE AppendNewline(h)
  BY <1>0, <1>5, GoesOn DEF AppendNewline, Early, Late
<1>6. CASE Launch(h)
  BY <1>0, <1>6, Ends DEF Launch, disk
<1>7. CASE Kill(h)
  BY <1>0, <1>7, GoesOn DEF Kill, disk, Early, Late
<1>8. CASE ReadInstalled(h)
  BY <1>0, <1>8 DEF ReadInstalled, read_installed_apps, disk, Commands, Early, Late, Line
<1>9. CASE EmptyList(h)
  BY <1>0, <1>j, <1>9, GoesOn DEF EmptyList, Early, Late
<1>10. CASE FillList(h)
  <2>1. CASE handler[h].kept = {}
    BY <1>0, <1>10, <2>1, GoesOn DEF FillList, Early, Late
  <2>2. CASE handler[h].kept # {}
    <3>1. PICK rest \in IF installed = {} THEN {{}} ELSE SUBSET (installed \union {Junk}) :
            installed' = handler[h].kept \union rest
      BY <1>10, <2>2 DEF FillList
    <3>2. rest \subseteq Line /\ (sound => rest = {})
      BY <1>0, <1>10, <3>1 DEF FillList, Line
    <3> QED BY <1>0, <1>10, <3>1, <3>2, GoesOn DEF FillList, Early, Late
  <2> QED BY <2>1, <2>2
<1>11. CASE RewriteFails(h)
  BY <1>0, <1>11, Ends DEF RewriteFails, disk
<1>12. CASE Delete(h)
  <2>1. /\ manifest' \in [Pkg -> File] /\ binary' \in [Pkg -> File]
        /\ handler' \in [Handler -> Commands]
    BY <1>0, <1>12, Ends DEF Delete
  <2>2. ASSUME sound PROVE Listed'
    <3>1. \A p \in installed' \ {Junk} : Whole(p)'
      BY <1>0, <1>12, <2>2 DEF Delete, Line
    <3>2. PackageOf(h)'
      BY <1>0, <1>12, <2>2, Ends DEF Delete
    <3> QED BY <3>1, <3>2
  <2> QED BY <1>0, <1>12, <2>1, <2>2 DEF Delete
<1> QED
  BY <1>1, <1>2, <1>3, <1>4, <1>5, <1>6, <1>7, <1>8, <1>9, <1>10, <1>11, <1>12 DEF Step

(* The boot and an outage leave the files alone, and an outage drops the   *)
(* command with whatever it has done.                                      *)
LEMMA NextKeepsFiles ==
  ASSUME Sequential, FilesInv, [Next]_vars
  PROVE  FilesInv'
<1>1. CASE Command
  <2>1. PICK h \in Handler : Step(h) \/ \E p \in Pkg : Install(h, p) \/ Remove(h, p)
    BY <1>1 DEF Command, PackagesNext
  <2>2. CASE Step(h)
    BY <2>2, StepKeepsFiles
  <2>3. ASSUME NEW p \in Pkg, Install(h, p) \/ Remove(h, p) PROVE FilesInv'
    <3>1. handler' \in [Handler -> Commands] /\ UNCHANGED <<manifest, binary, installed, sound>>
      BY <2>3 DEF Install, Remove, FilesInv, Commands, Early, Late, disk
    <3>2. sound => \A g \in Handler : PackageOf(g)'
      BY <2>3, <3>1 DEF Sequential, Install, Remove, read_installed_apps, FilesInv, PackageOf, At,
                        pkg, disk
    <3> QED BY <3>1, <3>2 DEF FilesInv, Whole
  <2> QED BY <2>1, <2>2, <2>3
<1>2. CASE BootStep \/ RecoveryExit \/ UNCHANGED vars
  <2>1. UNCHANGED <<manifest, binary, installed, handler, sound>>
    BY <1>2 DEF BootStep, PowerOn, ReadCount, EmptyCount, FillCount, CountFails, CheckRecovery,
                AllSpawned, MergeInstalled, SpawnEntry, ClearCount, ClearFails, RecoveryExit,
                vars, pvars, disk
  <2> QED BY <2>1 DEF FilesInv, Whole, PackageOf, At, pkg
<1>3. CASE PowerFails
  <2>1. /\ UNCHANGED <<manifest, binary, installed, sound>>
        /\ handler' \in [Handler -> Commands]
        /\ \A h \in Handler : handler'[h].pc = "idle"
    BY <1>3 DEF PowerFails, disk, Idle, Commands
  <2> QED BY <2>1 DEF FilesInv, Whole, PackageOf, At
<1> QED
  BY <1>1, <1>2, <1>3 DEF Next

(* A boot with the packages it has started or refused, and those still to  *)
(* come.                                                                   *)
SpawnInv ==
    sound /\ machine \in {"spawn", "clear_count"} /\ ~recovery =>
        installed \ {Junk} \subseteq
            started \union refused \union (IF machine = "spawn" THEN entries ELSE {})

LEMMA NextKeepsSpawn ==
  ASSUME FilesInv, SpawnInv, [Next]_vars
  PROVE  SpawnInv'
<1>1. CASE MergeInstalled
  <2>1. sound => \A p \in installed \ {Junk} : manifest[p] # "none"
    BY DEF FilesInv, Whole
  <2> QED BY <1>1, <2>1 DEF MergeInstalled, read_installed_apps, SpawnInv, pvars, disk
<1>2. ASSUME NEW p \in Pkg, SpawnEntry(p) PROVE SpawnInv'
  BY <1>2 DEF SpawnEntry, SpawnInv, disk
<1>3. CASE AllSpawned
  BY <1>3 DEF AllSpawned, SpawnInv, pvars, disk, history
<1>4. CASE \/ PowerOn \/ ReadCount \/ EmptyCount \/ FillCount \/ CountFails \/ CheckRecovery
           \/ ClearCount \/ ClearFails \/ RecoveryExit \/ Command \/ PowerFails
  BY <1>4 DEF PowerOn, ReadCount, EmptyCount, FillCount, CountFails, CheckRecovery, ClearCount,
              ClearFails, RecoveryExit, Command, PowerFails, SpawnInv, bvars
<1>5. CASE UNCHANGED vars
  BY <1>5 DEF vars, pvars, disk, bvars, history, SpawnInv
<1> QED
  BY <1>1, <1>2, <1>3, <1>4, <1>5 DEF Next, BootStep

(* When one command runs at a time and the list can be read, wherever      *)
(* outages and errors cut a command short, between a line and its newline  *)
(* too, a listed package has its manifest and its binary.                  *)
THEOREM ListedIsInstalled == ASSUME Sequential PROVE Spec => []ListedIsWhole
<1>1. Init => FilesInv
  BY InitFiles
<1>2. FilesInv /\ [Next]_vars => FilesInv'
  BY NextKeepsFiles
<1>3. FilesInv => ListedIsWhole
  BY DEF FilesInv, ListedIsWhole
<1> QED
  BY <1>1, <1>2, <1>3, PTL DEF Spec

(* So a boot in the normal mode skips no listed package: by the time it    *)
(* clears the counter each has been given a process or an error of its     *)
(* own.                                                                    *)
THEOREM ListedIsTried == ASSUME Sequential PROVE Spec => []NoneLeftOut
<1>1. Init => FilesInv /\ SpawnInv
  BY InitFiles DEF Init, SpawnInv
<1>2. FilesInv /\ SpawnInv /\ [Next]_vars => FilesInv' /\ SpawnInv'
  BY NextKeepsFiles, NextKeepsSpawn
<1>3. SpawnInv => NoneLeftOut
  BY DEF SpawnInv, NoneLeftOut
<1> QED
  BY <1>1, <1>2, <1>3, PTL DEF Spec
===============================================================================
