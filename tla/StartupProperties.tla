-------------------------- MODULE StartupProperties ---------------------------
(***************************************************************************)
(* Key, farm and ledger stay together, whatever start was interrupted.     *)
(***************************************************************************)
EXTENDS Startup

\* "So that from here on the key and the farm travel together": a key file that names its
\* farm is never written again, by no later start of the agent or of a command, unless two
\* processes once started at the same time.
KeyIsKept ==
  [][~ overlapped' /\ disk.key \notin {Null, Torn} /\ disk.key.farm # Null
       => disk'.key = disk.key]_vars

\* What the first process that came up found or left on the disk is what every later one
\* runs with: none that is killed on its way up, beside a running agent or after it,
\* leaves files that the next start refuses.
FirstRunIsForGood ==
  ~ overlapped /\ ran # Null =>
    /\ disk = ran
    /\ \A p \in Processes : proc[p].at = "running" =>
         disk.config = proc[p].token /\ disk.key = proc[p].key /\ disk.activation = proc[p].key.farm

\* The secret that signed the seals of version 2.0.0 is never replaced by another, even
\* when two processes give it a farm at the same time: the file has it, or is torn and
\* no process starts.
SecretOutlivesUpgrade ==
  disk.key = LegacyKey => [](disk.key \in {Null, Torn} \/ disk.key.secret = LegacySecret)
=============================================================================
