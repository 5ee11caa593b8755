----------------------------- MODULE MCRequests -----------------------------
(***************************************************************************)
(* What a request meets in authMiddleware before its handler: its key, the *)
(* version gate, the ban, the limits of its quota and the counters. These  *)
(* stages share nothing but the request, so each behaviour of this         *)
(* instance follows one of them; stage says which.                         *)
(***************************************************************************)
EXTENDS KeyAuth, VersionPolicy, AccessControl, QuotaLimits, RequestQuota, TLC

VARIABLE stage

Init ==
  /\ stage \in {"auth", "version", "ban", "limits", "quota"}
  /\ AuthInit /\ VersionInit /\ BanInit
  /\ (stage # "auth" => member = {})
  /\ LimitInit /\ (stage # "limits" => planEnd = 0)
  /\ QuotaInit /\ (stage # "quota" => /\ poolLimit = Min(PoolLimit)
                                      /\ \A m \in Member : memberLimit[m] = Min(MemberLimit))

AuthStage == stage = "auth" /\ AuthNext /\ UNCHANGED <<versionVars, banVars, limitVars, quotaVars, stage>>
VersionStage == stage = "version" /\ VersionNext /\ UNCHANGED <<authVars, banVars, limitVars, quotaVars, stage>>
BanStage == stage = "ban" /\ BanNext /\ UNCHANGED <<authVars, versionVars, limitVars, quotaVars, stage>>
LimitStage == stage = "limits" /\ LimitNext /\ UNCHANGED <<authVars, versionVars, banVars, quotaVars, stage>>
QuotaStage == stage = "quota" /\ QuotaNext /\ UNCHANGED <<authVars, versionVars, banVars, limitVars, stage>>

Next == AuthStage \/ VersionStage \/ BanStage \/ LimitStage \/ QuotaStage

vars == <<authVars, versionVars, banVars, limitVars, quotaVars, stage>>
Spec == Init /\ [][Next]_vars

\* The instance names the requests of every stage alike.
Symmetry == Permutations(Caller)
=============================================================================
