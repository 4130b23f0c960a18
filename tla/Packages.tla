------------------------------- MODULE Packages -------------------------------
(***************************************************************************)
(* Installing and removing packages (packages.rs): what is on the disk of  *)
(* a package, the list /data/installed.txt, and handlers that change both  *)
(* one file operation at a time.  Writes reach the disk in the order they  *)
(* are made, each as a whole or not; a copy takes several and is seen      *)
(* incomplete until it is done, fs::write empties the list before it fills *)
(* it, and writeln! writes a line and then its newline.                    *)
(*                                                                         *)
(* The list is kept as the set of its lines.  A line that is no name, what *)
(* is left of one or two written as one, is Junk: no package is called so. *)
(***************************************************************************)
EXTENDS Integers, FiniteSets

CONSTANTS Pkg,        \* the catalogue
          Handler,    \* reader threads of applications that send commands
          Junk        \* a line of the list that names no package

ASSUME JunkAssumption == Junk \notin Pkg

Idle == [pc |-> "idle"]

VARIABLES
    manifest, binary,  \* Pkg -> what is there of a file: "none", "part", "whole"
    installed,         \* lines of installed.txt
    open,              \* the last of them, if its newline is missing
    started,           \* packages given a process since power on, and not killed
    handler,           \* Handler -> its command and how far it is
    sound              \* what is on the disk can always be read
disk  == <<manifest, binary, installed, open>>
pvars == <<disk, started, handler, sound>>

PackagesInit ==
    /\ manifest = [p \in Pkg |-> "none"] /\ binary = [p \in Pkg |-> "none"]
    /\ installed = {} /\ open = {} /\ started = {}
    /\ handler = [h \in Handler |-> Idle]
    /\ sound \in BOOLEAN

(* What a command may take for the list: a read that fails gives no lines. *)
read_installed_apps == {installed} \union IF sound THEN {} ELSE {{}}

At(h, pc)   == handler[h].pc = pc
Goto(h, pc) == handler' = [handler EXCEPT ![h].pc = pc]
Done(h)     == handler' = [handler EXCEPT ![h] = Idle]
pkg(h)      == handler[h].pkg

-----------------------------------------------------------------------------
(* pkg-install                                                             *)

Install(h, p) ==
    /\ At(h, "idle")
    /\ \E list \in read_installed_apps : p \notin list
    /\ handler' = [handler EXCEPT ![h] = [pc |-> "copy_manifest", pkg |-> p]]
    /\ UNCHANGED <<disk, started, sound>>

\* Mutant: a package is listed when its manifest is there.
CopyManifestLists(h) ==
    /\ \/ At(h, "copy_manifest") /\ manifest' = [manifest EXCEPT ![pkg(h)] = "part"]
                                 /\ UNCHANGED installed /\ Goto(h, "manifest")
       \/ At(h, "manifest") /\ manifest' = [manifest EXCEPT ![pkg(h)] = "whole"]
                            /\ installed' = installed \union {pkg(h)} /\ Goto(h, "copy_binary")
    /\ UNCHANGED <<binary, open, started, sound>>

CopyManifest(h) ==
    /\ \/ At(h, "copy_manifest") /\ manifest' = [manifest EXCEPT ![pkg(h)] = "part"]
                                 /\ Goto(h, "manifest")
       \/ At(h, "manifest") /\ manifest' = [manifest EXCEPT ![pkg(h)] = "whole"]
                            /\ Goto(h, "copy_binary")
    /\ UNCHANGED <<binary, installed, open, started, sound>>

(* The manifest is read back for the name of the binary.                   *)
CopyBinary(h) ==
    /\ \/ /\ At(h, "copy_binary") /\ manifest[pkg(h)] = "whole"
          /\ binary' = [binary EXCEPT ![pkg(h)] = "part"]
          /\ Goto(h, "binary")
       \/ /\ At(h, "binary")
          /\ binary' = [binary EXCEPT ![pkg(h)] = "whole"]
          /\ Goto(h, "append")
    /\ UNCHANGED <<manifest, installed, open, started, sound>>

(* A name is joined to a line without a newline, which then names neither. *)
(* What was on that line is lost, unless another line has it too.          *)
AppendName(h) ==
    /\ At(h, "append")
    /\ IF open = {} THEN installed' = installed \union {pkg(h)} /\ open' = {pkg(h)}
       ELSE /\ \E lost \in SUBSET open : installed' = (installed \ lost) \union {Junk}
            /\ open' = {Junk}
    /\ Goto(h, "newline")
    /\ UNCHANGED <<manifest, binary, started, sound>>

AppendNewline(h) ==
    /\ At(h, "newline")
    /\ open' = {}
    /\ Goto(h, "launch")
    /\ UNCHANGED <<manifest, binary, installed, started, sound>>

(* An error at any of these steps ends the command with what there is.     *)
InstallFails(h) ==
    /\ handler[h].pc \in {"copy_manifest", "manifest", "copy_binary", "binary", "append",
                          "newline"}
    /\ Done(h)
    /\ UNCHANGED <<disk, started, sound>>

Whole(p) == manifest[p] = "whole" /\ binary[p] = "whole"

(* The runtime is started with the binary's name, or something refuses the *)
(* package: its manifest, its digest, or the system.                       *)
Launch(h) ==
    /\ At(h, "launch")
    /\ \/ manifest[pkg(h)] # "none" /\ started' = started \union {pkg(h)}
       \/ UNCHANGED started
    /\ Done(h)
    /\ UNCHANGED <<disk, sound>>

-----------------------------------------------------------------------------
(* pkg-remove                                                              *)

Remove(h, p) ==
    /\ At(h, "idle")
    /\ \E list \in read_installed_apps : p \in list
    /\ handler' = [handler EXCEPT ![h] = [pc |-> "kill", pkg |-> p]]
    /\ UNCHANGED <<disk, started, sound>>

(* An installed package is never restarted after a kill.                   *)
Kill(h) ==
    /\ At(h, "kill")
    /\ started' = started \ {pkg(h)}
    /\ Goto(h, "read")
    /\ UNCHANGED <<disk, sound>>

ReadInstalled(h) ==
    /\ At(h, "read")
    /\ \E list \in read_installed_apps :
         handler' = [handler EXCEPT ![h] = [pc |-> "empty_list", pkg |-> pkg(h),
                                            kept |-> list \ {pkg(h)}]]
    /\ UNCHANGED <<disk, started, sound>>

EmptyList(h) ==
    /\ At(h, "empty_list")
    /\ installed' = {} /\ open' = {}
    /\ Goto(h, "fill_list")
    /\ UNCHANGED <<manifest, binary, started, sound>>

(* Filled from its beginning, over what others have written meanwhile: of  *)
(* that the first lines are lost, and one may be cut.                      *)
FillList(h) ==
    /\ At(h, "fill_list")
    /\ IF handler[h].kept = {} THEN UNCHANGED <<installed, open>>
       ELSE \E rest \in IF installed = {} THEN {{}} ELSE SUBSET (installed \union {Junk}) :
              /\ installed' = handler[h].kept \union rest
              /\ open' = (IF open \subseteq rest THEN open ELSE {Junk}) \intersect rest
    /\ Goto(h, "delete")
    /\ UNCHANGED <<manifest, binary, started, sound>>

RewriteFails(h) ==
    /\ handler[h].pc \in {"empty_list", "fill_list"}
    /\ Done(h)
    /\ UNCHANGED <<disk, started, sound>>

\* Mutant: the files are deleted before the list is rewritten.
DeleteEarly(h) ==
    /\ handler[h].pc \in {"delete", "read"}
    /\ \/ manifest[pkg(h)] # "none" /\ manifest' = [manifest EXCEPT ![pkg(h)] = "none"]
                                    /\ UNCHANGED <<binary, handler>>
       \/ binary[pkg(h)] # "none" /\ binary' = [binary EXCEPT ![pkg(h)] = "none"]
                                  /\ UNCHANGED <<manifest, handler>>
       \/ At(h, "delete") /\ Done(h) /\ UNCHANGED <<manifest, binary>>
    /\ UNCHANGED <<installed, open, started, sound>>

(* remove_dir_all, file by file in any order; it may fail at any of them.  *)
Delete(h) ==
    /\ At(h, "delete")
    /\ \/ manifest[pkg(h)] # "none" /\ manifest' = [manifest EXCEPT ![pkg(h)] = "none"]
                                    /\ UNCHANGED <<binary, handler>>
       \/ binary[pkg(h)] # "none" /\ binary' = [binary EXCEPT ![pkg(h)] = "none"]
                                  /\ UNCHANGED <<manifest, handler>>
       \/ Done(h) /\ UNCHANGED <<manifest, binary>>
    /\ UNCHANGED <<installed, open, started, sound>>

Step(h) == \/ CopyManifest(h) \/ CopyBinary(h) \/ AppendName(h) \/ AppendNewline(h)
           \/ InstallFails(h) \/ Launch(h)
           \/ Kill(h) \/ ReadInstalled(h) \/ EmptyList(h) \/ FillList(h) \/ RewriteFails(h)
           \/ Delete(h)

PackagesNext ==
    \E h \in Handler : Step(h) \/ \E p \in Pkg : Install(h, p) \/ Remove(h, p)
===============================================================================
