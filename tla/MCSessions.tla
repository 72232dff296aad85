----------------------------- MODULE MCSessions -----------------------------
(***************************************************************************)
(* Sessions between two parties: file transfers (Pftp) and chats (Chat).   *)
(* A behaviour runs the programs of one of the two modules.                *)
(***************************************************************************)
EXTENDS Pftp, Chat, TLC

MCFiles == "full" :> 4 @@ "short" :> 1 @@ "empty" :> 0 @@ "missing" :> -1 @@ "../x" :> -2

SessionsInit == PftpInit /\ ChatInit /\ pftpon = (chat = "off")

SessionsNext == \/ PftpNext /\ UNCHANGED chatvars
                \/ ChatNext /\ UNCHANGED pftpvars

SessionsSpec == /\ SessionsInit /\ [][SessionsNext]_<<pftpvars, chatvars>>
                /\ PftpFairness /\ ChatFairness

\* The types of the variables of both modules.
SessionsTypeOK == PftpTypeOK /\ ChatTypeOK

\* A downloaded file is whole; a chat's queue is there while its session is and
\* gone afterwards.
SessionsSafe == PftpWhole /\ ChatQueues

\* Downloads end and messages are shown, but for the cases each module names.
SessionsEnd == PftpEnds /\ ChatShown
=============================================================================
