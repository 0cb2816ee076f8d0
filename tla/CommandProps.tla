---------------------------- MODULE CommandProps ----------------------------
(***************************************************************************)
(* What timeoutx run guarantees to the script that calls it.               *)
(***************************************************************************)
EXTENDS Command

Switches ==
  /\ signalExit \in BOOLEAN /\ jsonProgress \in BOOLEAN
  /\ started \in BOOLEAN /\ killed \in BOOLEAN

(* Every variable has the type of what it stands for.                      *)
TypeOK ==
  /\ stage \in {"environment", "options", "events", "run", "map", "create",
                "write", "rename", "exit", "exited"}
  /\ options \in 0 .. MaxOptions
  /\ limits \in [LimitFlags -> Int]
  /\ killAfter \in Int /\ probeEvery \in Int /\ timeoutExit \in Int
  /\ events \in {"off", "-", "file", "denied"} /\ eventsFD \in {-1, 0, 3}
  /\ given \subseteq {"path", "fd"}
  /\ sink \in {"none", "fd", "stderr", "file"}
  /\ status \in {"unset", "timeout", "failed", "internal_error", "succeeded"}
  /\ cmdErr \in {"nil", "exit"} \union StartErrors
  /\ childCode \in ChildCodes /\ code \in Int
  /\ result \in {"absent", "old", "partial", "new"}
  /\ temp \in {"none", "partial", "whole"}
  /\ exitStatus \in -1 .. 255
  /\ Switches

(* The command lines the guide allows: no negative limit or grace period,  *)
(* a positive interval, one event sink, and that one can be opened.        *)
Valid ==
  /\ killAfter >= 0 /\ probeEvery > 0
  /\ \A f \in LimitFlags : limits[f] >= 0
  /\ given # {"path", "fd"}
  /\ events # "denied"

(* A command line with a mistake runs nothing and exits with 125 (143 if a *)
(* signal came first), though the mistakes are found in four places: flags,*)
(* combinations, event writer, engine (runCommand, Runner.Run).            *)
InvalidRunsNothing ==
  /\ started => Valid
  /\ ~Valid /\ stage = "exited" => exitStatus \in {125, 143}

(* Exit status 0 means that the child ran and returned 0, as the table of  *)
(* exit codes in docs/cli.md has it.  A setup that fails before cmd.Start  *)
(* leaves cmdErr nil, and a --timeout-exit may be a multiple of 256        *)
(* (mapExitCode, os.Exit): the code refutes it.                            *)
ZeroMeansSuccess ==
  exitStatus = 0 => started /\ status = "succeeded" /\ childCode = 0

(* The two ways in which it is refuted are the only ones.                  *)
ZeroExplained ==
  exitStatus = 0 =>
    \/ started /\ status = "succeeded" /\ childCode = 0
    \/ ~started /\ status = "failed" /\ cmdErr = "nil"
    \/ status = "timeout" /\ timeoutExit # 0 /\ timeoutExit % 256 = 0

(* Whoever reads the result file sees a whole one, that of this run or one *)
(* from before, whatever fails and whenever the command is killed; it      *)
(* exists only if the run was over (writeResultJSON).                      *)
ResultWhole ==
  /\ result # "partial"
  /\ result = "new" => status # "unset" /\ code = ExitCode
=============================================================================
