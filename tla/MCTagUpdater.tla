---------------------------- MODULE MCTagUpdater ----------------------------
(* Instances of TagUpdater for TLC.                                        *)
EXTENDS TagUpdater

\* Everything may happen except that the Applications go unreadable, which
\* ends a reconcile early and writes nothing.
EveryDisturbance == (FaultKinds \cup ChangeKinds) \ {"appUnreadable"}

\* The remote systems fail but the process, its cache and the user are steady.
RemoteFailures == {"sourceFails", "pushFails", "tagDeleted"}

\* Faults of the process and of its peers, and Applications that come and go.
\* The spec is steady and no tag is withdrawn, so the controller may settle.
FaultsOnly == (FaultKinds \ {"tagDeleted"}) \cup {"appUnreadable"}

UnreadableOnly == {"appUnreadable"}

=============================================================================
