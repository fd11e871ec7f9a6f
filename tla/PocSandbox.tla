----------------------------- MODULE PocSandbox -----------------------------
(***************************************************************************)
(* The sandbox a PoC runs in (poc_runner.py): which isolation a host       *)
(* offers, what can come back from a run, and the verdict made of it.      *)
(* Pure functions of the host and of the outcome; PocPack uses them.       *)
(*                                                                         *)
(* Host probes, container arguments and captured output are abstracted to  *)
(* the distinctions the code draws: "kata" stands for kata-qemu, kata-clh  *)
(* and kata, and `patched` for patched firecracker and jailer binaries.    *)
(***************************************************************************)
EXTENDS Naturals

Runners  == {"sandbox", "microvm", "firecracker", "gvisor", "runc", "local_subprocess"}
Networks == {"none", "allow", "host"}

(* What probe_host finds; `image` tells whether a kernel and a root file    *)
(* system are configured and there.                                        *)
Hosts == [docker : BOOLEAN, runtimes : SUBSET {"kata-fc", "kata", "runsc", "runc"},
          kvm : BOOLEAN, patched : BOOLEAN, image : BOOLEAN]

SessionRuntimes == {"kata-fc", "kata", "runsc"}
Isolated        == SessionRuntimes \union {"firecracker"}

-----------------------------------------------------------------------------
(* The ladder: microVM, Firecracker, gVisor, or a refusal.                 *)

PickMicrovm(host) ==
  IF ~host.docker THEN {}
  ELSE IF "kata-fc" \in host.runtimes /\ host.kvm /\ host.patched THEN {"kata-fc"}
  ELSE host.runtimes \intersect {"kata"}

PickFirecracker(host) ==
  IF host.image /\ host.kvm /\ host.patched THEN {"firecracker"} ELSE {}

PickGvisor(host) == IF host.docker THEN host.runtimes \intersect {"runsc"} ELSE {}

FirstOf(a, b) == IF a # {} THEN a ELSE b

(* The runtime chosen, at most one; none when the harness refuses.         *)
SelectIsolation(runner, network, host) ==
  IF runner \in {"local_subprocess", "runc"} \/ network = "host" THEN {}
  ELSE
  CASE runner = "gvisor"      -> PickGvisor(host)
    [] runner = "firecracker" -> PickFirecracker(host)
    [] runner = "microvm"     -> FirstOf(PickMicrovm(host), PickFirecracker(host))
    [] runner = "sandbox"     -> FirstOf(PickMicrovm(host),
                                   FirstOf(PickFirecracker(host), PickGvisor(host)))

Refusal(runner, network) ==
  IF runner \in {"local_subprocess", "runc"} \/ network = "host"
  THEN "unsafe_skipped" ELSE "sandbox_unavailable"

-----------------------------------------------------------------------------
(* One run in the sandbox: `error` is spawn_error, `daemon` what the docker *)
(* client said on its way out, `signal` the match of success_regex.        *)

Outcomes == [error : {"none", "timeout", "spawn", "no_docker", "mount", "host_network"},
             zero : BOOLEAN,
             daemon : {"none", "no_image", "no_runtime"},
             signal : {"none", "matched", "absent"}]

TimedOut(o) == o.error = "timeout"

(* spawn_captured: a command that never started has no output to match.    *)
Captured(hasRegex) ==
  {o \in Outcomes :
     /\ o.signal = "none" <=> ~hasRegex
     /\ o.error \notin {"none", "timeout"} => o.daemon = "none" /\ o.signal # "matched" /\ ~o.zero
     /\ o.daemon # "none" => ~o.zero /\ o.signal # "matched"}

(* What can come back from one run, for the runtime it was sent to: the     *)
(* container arguments are refused when they would mount a secret or use   *)
(* the host's network, and the direct microVM talks to no docker client.   *)
RunIsolated(runtime, network, hasRegex) ==
  {o \in Captured(hasRegex) :
     /\ network = "host" /\ runtime # "firecracker" <=> o.error = "host_network"
     /\ runtime = "firecracker" => o.daemon = "none" /\ o.error # "no_docker"}

BuildFailed(o)    == o.daemon = "no_image"
MissingRuntime(o) == o.daemon = "no_runtime" \/ o.error = "no_docker"

(* classify_run_result, for a run that was not skipped.                    *)
Classify(o) ==
  IF o.error # "none" THEN "poc_broken"
  ELSE CASE o.signal = "matched" -> "signal_observed"
         [] o.signal = "absent"  -> "signal_absent"
         [] OTHER                -> IF o.zero THEN "inconclusive" ELSE "poc_broken"

(* The verdict of a run that was not refused.                              *)
Verdict(o) ==
  IF o.error \in {"mount", "host_network"} THEN "unsafe_skipped"
  ELSE IF BuildFailed(o)    THEN "build_failed"
  ELSE IF MissingRuntime(o) THEN "sandbox_unavailable"
  ELSE Classify(o)

(* _cycle_verdict repeats that chain for one cycle of a session.           *)
CycleVerdict(o) == Verdict(o)

Verdicts == {"signal_observed", "signal_absent", "poc_broken", "inconclusive",
             "build_failed", "sandbox_unavailable", "unsafe_skipped"}
=============================================================================
