------------------------------ MODULE Pipeline ------------------------------
(***************************************************************************)
(* The operator from end to end: the policy controller of WildcardPolicy,   *)
(* cert-manager, and the sync controller as CertSyncMirror shows it to be,  *)
(* down to what each Key Vault holds.  The controllers meet at the API      *)
(* server only: through the Certificates, the Secrets issued for them, and  *)
(* the sync resources.                                                      *)
(***************************************************************************)
EXTENDS WildcardPolicy

VARIABLES
  issued,   \* by name, the DNS names the Secret's certificate is for, or None
  carried,  \* what the sync controller is about to import, or None
  vault     \* by vault and name, the DNS names of the certificate, or None

pipe == <<issued, carried, vault>>

\* cert-manager issues what a Certificate asks for, again when it changes.
Issue(n) ==
  /\ certManager /\ certs[n] # None /\ issued[n] # certs[n]
  /\ issued' = [issued EXCEPT ![n] = certs[n]]
  /\ UNCHANGED <<vars, carried, vault>>

\* A Secret goes with its Certificate, or is removed by hand.
RemoveSecret(n) ==
  /\ issued[n] # None /\ issued' = [issued EXCEPT ![n] = None]
  /\ IF certs[n] = None THEN UNCHANGED left ELSE Spend("tampers")
  /\ UNCHANGED <<policy, stale, objects, copies, cluster, schedule, worker, carried,
                 vault>>

\* A fault: once there, an object is taken to be right.
Load_OnlyMissing(n) ==
  /\ carried = None
  /\ syncs[n] # None /\ ~syncs[n].deleting /\ issued[n] # None
  /\ vault[syncs[n].target][n] = None
  /\ carried' = [target |-> syncs[n].target, name |-> n, names |-> issued[n]]
  /\ UNCHANGED <<vars, issued, vault>>

\* The sync controller's worker takes a resource whose vault does not hold
\* what its Secret does.
Load(n) ==
  /\ carried = None
  /\ syncs[n] # None /\ ~syncs[n].deleting /\ issued[n] # None
  /\ vault[syncs[n].target][n] # issued[n]
  /\ carried' = [target |-> syncs[n].target, name |-> n, names |-> issued[n]]
  /\ UNCHANGED <<vars, issued, vault>>

\* It imports it, whatever has become of the resource and the Secret.
Imported == [vault EXCEPT ![carried.target][carried.name] = carried.names]

Import ==
  /\ carried # None /\ carried' = None
  /\ vault' = Imported
  /\ UNCHANGED <<vars, issued>>

\* The call fails, applied or not, and the resource is looked at again.
ImportFails ==
  /\ carried # None /\ carried' = None
  /\ Spend("faults")
  /\ UNCHANGED vault \/ vault' = Imported
  /\ UNCHANGED <<policy, stale, objects, copies, cluster, schedule, worker, issued>>

\* The whole process stops.
RestartAll == Restart /\ carried' = None /\ UNCHANGED <<issued, vault>>

PipelineInit ==
  /\ Init /\ carried = None
  /\ issued = [n \in Names |-> None]
  /\ vault = [t \in Targets |-> [n \in Names |-> None]]

Controller ==
  \/ Start \/ Pass \/ Informers \/ Others
  \/ \E delay \in {"backoff", "resync"} : Fire(delay)

PipelineNext ==
  \/ Controller /\ UNCHANGED pipe
  \/ RestartAll
  \/ \E n \in Names : Issue(n) \/ RemoveSecret(n) \/ Load(n)
  \/ Import \/ ImportFails

\* Passes end, cert-manager issues in the end, and the sync controller keeps
\* what CertSyncMirror shows of it, with the same weak fairness.  That a pass under way can go on until it
\* ends is for WildcardPolicy, whose EventSpec has weak fairness of Pass.
PipelineSpec ==
  /\ PipelineInit /\ [][PipelineNext]_<<vars, pipe>>
  /\ []<>(worker.step = "idle") /\ DeliveryFairness /\ ResyncFairness
  /\ WF_pipe(Import)
  /\ \A n \in Names : WF_pipe(Issue(n)) /\ WF_pipe(Load(n))

-----------------------------------------------------------------------------
(***************************************************************************)
(* Properties                                                              *)
(***************************************************************************)
\* What a policy publishes is served: in the end every certificate of the
\* plan for what is routed is in the policy's vault under the name the status
\* gives for a listener, through changed routes, a moved vault, objects and
\* Secrets removed by hand, failing calls and restarts of the process.
PlanServed ==
  <>[](LET plan == TruePlan
       IN policy.exists /\ ~policy.deleting /\ policy.spec.sound /\ plan.ok /\ certManager
            => /\ policy.status.plan = plan
               /\ \A c \in plan.certificates : vault[policy.spec.target][c.name] = c.names)

=============================================================================
