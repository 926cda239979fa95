----------------------------- MODULE Supervision -----------------------------
(***************************************************************************)
(* The resident service in the hands of the operating system's supervisor  *)
(* (context-runtime/src/daemon): install and uninstall as the calls they   *)
(* make, each of which may fail, on launchd, systemd and the Task          *)
(* Scheduler.  Between the calls the supervisor stops, restarts and starts *)
(* daemons, the user logs out and in, and the binary is replaced.  What a  *)
(* supervisor does with a call is modelled from what the adapters say of   *)
(* it.  The text of a definition is left out: it is the binary's version.  *)
(***************************************************************************)
EXTENDS Integers, Sequences, FiniteSets

CONSTANTS RootLists,   \* the lists of roots the command line may give
          MaxVersion,  \* a bound: how often the binary is replaced
          MaxPolls     \* 50 in the code: how often uninstall looks again

VARIABLES platform,  \* "macos", "linux" or "windows"
          version,   \* the binary that is installed
          unit,      \* the definition files: a version, or none
          held,      \* what the supervisor holds for a label: a version, or none
          enabled,   \* systemd: the label is wanted by the default target
          process,   \* the daemon that runs for a label: a version, or none
          stopping,  \* launchd: the job is booted out and not gone yet
          command,   \* the command that runs: step, roots and polls
          answer,    \* what the last command for a label answered
          ignored    \* the calls of that command that failed and were passed over

supVars == <<platform, version, unit, held, enabled, process, stopping, command, answer, ignored>>

NoVersion == 0
Versions == 0..MaxVersion

(* label_for_roots: of the set of roots, whatever their order. *)
Label(roots) == {roots[i] : i \in DOMAIN roots}
Labels == {Label(roots) : roots \in RootLists}

(* unit_path: under the first root on Windows, of the label alone elsewhere. *)
Unit(roots) == <<Label(roots), IF platform = "windows" THEN {roots[1]} ELSE {}>>
Units == {<<Label(roots), first>> : roots \in RootLists,
                                    first \in {{}} \cup {{r[1]} : r \in RootLists}}

Resting == [step |-> "idle", roots |-> <<>>, polls |-> 0]

SupervisionInit ==
    /\ platform \in {"macos", "linux", "windows"}
    /\ version = 1
    /\ unit = [u \in Units |-> NoVersion]
    /\ held = [l \in Labels |-> NoVersion]
    /\ enabled = {}
    /\ process = [l \in Labels |-> NoVersion]
    /\ stopping = {}
    /\ command = Resting
    /\ answer = [l \in Labels |-> "none"]
    /\ ignored = [l \in Labels |-> {}]

This == Label(command.roots)
At(step) == command.step = step
Then(step) == command' = [command EXCEPT !.step = step]
Answer(a) == command' = Resting /\ answer' = [answer EXCEPT ![This] = a]
Ignores(call) == ignored' = [ignored EXCEPT ![This] = @ \cup {call}]
Fails == Answer("failed") /\ UNCHANGED <<unit, held, enabled, process, stopping, ignored>>

(* A daemon is started unless one of the label runs already. *)
Started(v) == IF process[This] = NoVersion THEN [process EXCEPT ![This] = v] ELSE process

(* The shell starts a command; until it answers nothing is known of the label. *)
Start(step) ==
    /\ At("idle")
    /\ \E roots \in RootLists :
        /\ command' = [step |-> step, roots |-> roots, polls |-> 0]
        /\ answer' = [answer EXCEPT ![Label(roots)] = "none"]
        /\ ignored' = [ignored EXCEPT ![Label(roots)] = {}]
    /\ UNCHANGED <<unit, held, enabled, process, stopping>>

(* install, the definition first. *)
WriteUnit ==
    /\ At("write")
    /\ \/ /\ unit' = [unit EXCEPT ![Unit(command.roots)] = version]
          /\ Then("register")
          /\ UNCHANGED <<held, enabled, process, stopping, answer, ignored>>
       \/ Fails

(* launchctl bootout only signals the job; the job goes later. *)
BootoutBeforeInstall ==
    /\ At("register") /\ platform = "macos"
    /\ \/ stopping' = stopping \cup {l \in {This} : held[l] # NoVersion}
       \/ UNCHANGED stopping
    /\ Then("boot")
    /\ UNCHANGED <<unit, held, enabled, process, answer, ignored>>

(* launchctl bootstrap, refused while the job is still there. *)
Bootstrap ==
    /\ At("boot") /\ platform = "macos"
    /\ \/ /\ held[This] = NoVersion
          /\ held' = [held EXCEPT ![This] = unit[Unit(command.roots)]]
          /\ process' = [process EXCEPT ![This] = unit[Unit(command.roots)]]
          /\ Answer("installed")
          /\ UNCHANGED <<unit, enabled, stopping, ignored>>
       \/ Fails

(* daemon-reload reads the definitions of every label again; /Create is told *)
(* of one.                                                                   *)
Reread == [l \in Labels |-> IF platform = "linux" THEN unit[<<l, {}>>]
                            ELSE IF l = This THEN unit[Unit(command.roots)] ELSE held[l]]

(* systemctl daemon-reload, and schtasks /Create /F. *)
Register ==
    /\ At("register") /\ platform # "macos"
    /\ \/ /\ held' = Reread
          /\ Then("boot")
          /\ UNCHANGED <<unit, enabled, process, stopping, answer, ignored>>
       \/ Fails

(* systemctl enable --now, and schtasks /Run: a daemon that runs is left. *)
Run ==
    /\ At("boot") /\ platform # "macos"
    /\ \/ /\ enabled' = IF platform = "linux" THEN enabled \cup {This} ELSE enabled
          /\ process' = Started(held[This])
          /\ Answer("installed")
          /\ UNCHANGED <<unit, held, stopping, ignored>>
       \/ Fails

(* A mutant: the error of a bootout is ignored, as install ignores it. *)
BootoutSwallowed ==
    /\ At("stop") /\ platform = "macos"
    /\ \E told \in BOOLEAN :
        stopping' = stopping \cup {l \in {This} : told /\ held[l] # NoVersion}
    /\ Then("wait")
    /\ UNCHANGED <<unit, held, enabled, process, answer, ignored>>

(* uninstall: on macOS a bootout that fails, other than for want of a job,  *)
(* is an error.                                                             *)
Bootout ==
    /\ At("stop") /\ platform = "macos"
    /\ \/ /\ stopping' = stopping \cup {l \in {This} : held[l] # NoVersion}
          /\ Then("wait")
          /\ UNCHANGED <<unit, held, enabled, process, answer, ignored>>
       \/ Fails

(* launchctl print, again and again while it shows the job.  One that fails *)
(* or cannot be run ends the waiting as one that finds no job does.         *)
Wait ==
    /\ At("wait")
    /\ \/ /\ held[This] # NoVersion /\ command.polls < MaxPolls
          /\ command' = [command EXCEPT !.polls = @ + 1]
          /\ UNCHANGED ignored
       \/ /\ IF held[This] = NoVersion THEN UNCHANGED ignored ELSE Ignores("print")
          /\ Then("remove")
    /\ UNCHANGED <<unit, held, enabled, process, stopping, answer>>

(* systemctl disable --now, and schtasks /End.  An error is passed over,    *)
(* whatever was done before it.                                             *)
Stop ==
    /\ At("stop") /\ platform # "macos"
    /\ \/ /\ enabled' = enabled \ {This}
          /\ process' = [process EXCEPT ![This] = NoVersion]
          /\ UNCHANGED ignored
       \/ /\ enabled' \in {enabled, enabled \ {This}}
          /\ UNCHANGED process
          /\ Ignores("stop")
    /\ Then(IF platform = "windows" THEN "delete" ELSE "remove")
    /\ UNCHANGED <<unit, held, stopping, answer>>

(* schtasks /Delete: an error is passed over. *)
Delete ==
    /\ At("delete")
    /\ \/ held' = [held EXCEPT ![This] = NoVersion] /\ UNCHANGED ignored
       \/ UNCHANGED held /\ Ignores("delete")
    /\ Then("remove")
    /\ UNCHANGED <<unit, enabled, process, stopping, answer>>

RemoveUnit ==
    /\ At("remove")
    /\ \/ /\ unit' = [unit EXCEPT ![Unit(command.roots)] = NoVersion]
          /\ IF platform = "linux"
             THEN Then("reload") /\ UNCHANGED answer
             ELSE Answer("uninstalled")
          /\ UNCHANGED <<held, enabled, process, stopping, ignored>>
       \/ unit[Unit(command.roots)] # NoVersion /\ Fails

(* The last daemon-reload, whose error is passed over. *)
Reload ==
    /\ At("reload")
    /\ \/ held' = Reread /\ UNCHANGED ignored
       \/ UNCHANGED held /\ Ignores("reload")
    /\ Answer("uninstalled")
    /\ UNCHANGED <<unit, enabled, process, stopping>>

(* The shell's command is killed. *)
Interrupt ==
    /\ ~At("idle")
    /\ command' = Resting
    /\ UNCHANGED <<unit, held, enabled, process, stopping, answer, ignored>>

(* A booted-out job has ended, and launchd forgets it. *)
JobGone ==
    \E l \in stopping :
        /\ held' = [held EXCEPT ![l] = NoVersion]
        /\ process' = [process EXCEPT ![l] = NoVersion]
        /\ stopping' = stopping \ {l}
        /\ UNCHANGED <<unit, enabled, command, answer, ignored>>

(* The daemon dies: KeepAlive and Restart=always start it again from what   *)
(* the supervisor holds; the Task Scheduler tries three times.              *)
Crash ==
    \E l \in {k \in Labels \ stopping : process[k] # NoVersion} :
        /\ process' \in {[process EXCEPT ![l] = v] :
                            v \in {held[l]} \cup {n \in {NoVersion} : platform = "windows"}}
        /\ UNCHANGED <<unit, held, enabled, stopping, command, answer, ignored>>

(* What the next login starts for a label. *)
AtLogin(l) ==
    CASE platform = "macos"   -> unit[<<l, {}>>]
      [] platform = "linux"   -> IF l \in enabled THEN unit[<<l, {}>>] ELSE NoVersion
      [] platform = "windows" -> held[l]

(* Logging out ends every daemon and the shell's command. *)
Relogin ==
    /\ process' = [l \in Labels |-> AtLogin(l)]
    /\ held' = [l \in Labels |-> IF platform = "windows" THEN held[l] ELSE unit[<<l, {}>>]]
    /\ stopping' = {}
    /\ command' = Resting
    /\ UNCHANGED <<unit, enabled, answer, ignored>>

Upgrade ==
    /\ At("idle") /\ version < MaxVersion
    /\ version' = version + 1
    /\ UNCHANGED <<unit, held, enabled, process, stopping, command, answer, ignored>>

(* The adapter's own step, for a command that is under way. *)
CommandStep ==
    \/ WriteUnit \/ BootoutBeforeInstall \/ Bootstrap \/ Register \/ Run
    \/ Bootout \/ Wait \/ Stop \/ Delete \/ RemoveUnit \/ Reload

SupervisionNext ==
    /\ UNCHANGED platform
    /\ \/ UNCHANGED version /\ (Start("write") \/ Start("stop"))
       \/ UNCHANGED version /\ CommandStep
       \/ UNCHANGED version /\ (Interrupt \/ JobGone \/ Crash \/ Relogin)
       \/ Upgrade

SupervisionSpec == SupervisionInit /\ [][SupervisionNext]_supVars

-----------------------------------------------------------------------------
(* An answer stays true through what happens after it.  "installed": the    *)
(* next login and the next restart start a definition, and under launchd    *)
(* what runs is that definition and not a job on its way out; systemd and   *)
(* the Task Scheduler may keep the old binary running.  "uninstalled": no   *)
(* daemon runs and the supervisor holds none, unless a call that failed was *)
(* passed over; no login starts one, unless that call was schtasks /Delete; *)
(* launchd and systemd have no definition to start, and what still runs     *)
(* under launchd has been told to stop (macos.rs, linux.rs, windows.rs).    *)
AnswerIsTrue(l) ==
    /\ answer[l] = "installed" =>
        /\ AtLogin(l) # NoVersion /\ held[l] = AtLogin(l)
        /\ platform = "linux" => process[l] # NoVersion
        /\ platform = "macos" => process[l] = AtLogin(l) /\ l \notin stopping
    /\ answer[l] = "uninstalled" =>
        /\ ignored[l] = {} => process[l] = NoVersion /\ held[l] = NoVersion
        /\ "delete" \notin ignored[l] => AtLogin(l) = NoVersion
        /\ platform # "windows" => unit[<<l, {}>>] = NoVersion
        /\ platform = "macos" => process[l] = NoVersion \/ l \in stopping

AnswersStayTrue == \A l \in Labels : AnswerIsTrue(l)

(* What mod.rs:181 says of uninstall: "Stop `root`'s daemon and remove its  *)
(* registration."  The code breaks it on every platform, where a failure is *)
(* passed over.  No run checks it.                                          *)
UninstallStops ==
    \A l \in Labels : answer[l] = "uninstalled" => process[l] = NoVersion /\ AtLogin(l) = NoVersion
=============================================================================
