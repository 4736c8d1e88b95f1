------------------------ MODULE PromptPublishCommand ------------------------
(***************************************************************************)
(* `priompt publish` (main.go 622-635), composed with PromptServer: a      *)
(* client that makes two RPCs, GetPrompt for the version served before and *)
(* PublishPrompt, and tells its user from the two answers whether          *)
(* subscribers were notified.  Between the two RPCs, and beside them, the  *)
(* server goes on serving others.                                          *)
(***************************************************************************)
EXTENDS PromptServerProperties

CONSTANT Server     \* the worker that serves the command's RPCs, among others

VARIABLES
    stage,      \* what the command is doing
    before,     \* the version GetPrompt answered; NoPrompt ("") when it failed
    said,       \* what it told its user
    steady      \* what it was answered was, and is still, what the store serves

commandVars == <<stage, before, said, steady>>
compositionVars == <<vars, commandVars>>

ASSUME CommandAssumption == Server \in Worker

CommandInit ==
    /\ Init
    /\ stage = "none"
    /\ before = NoPrompt
    /\ said = ""
    /\ steady = FALSE

GetStarts ==
    /\ stage = "none"
    /\ Start(Server) /\ req'[Server] # NoRequest /\ req'[Server].op = "get"
    /\ stage' = "reading"
    /\ before' = NoPrompt
    /\ said' = ""
    /\ steady' = FALSE

(* The worker's handler ends, with an answer or a crash.  *)
Ends == pc[Server] # "idle" /\ pc'[Server] = "idle"

(* The row GetPrompt answers with: the cached one, or the one it read.  *)
Answered == rows[IF pc[Server] = "lookup" THEN cached ELSE asOf[Server]].version

GetEnds ==
    /\ stage = "reading"
    /\ Next /\ Ends
    /\ stage' = "read"
    /\ before' = IF Confirms(Server) THEN Answered ELSE NoPrompt
    /\ steady' = (before' = Served)
    /\ said' = said

(* Content main serves is published again, or new content: the command     *)
(* does not know which.                                                    *)
PublishStarts ==
    /\ stage = "read"
    /\ Start(Server) /\ req'[Server] # NoRequest
    /\ req'[Server].op = "publish" /\ req'[Server].branch = "main"
    /\ stage' = "publishing"
    /\ UNCHANGED <<before, said, steady>>

ClaimsAlways(v) == "subscribers notified"       \* mutation: no comparison
Claim(v) == IF v = before THEN "no change event sent" ELSE "subscribers notified"

PublishEnds ==
    /\ stage = "publishing"
    /\ Next /\ Ends
    /\ stage' = "none"
    /\ said' = IF Confirms(Server) THEN Claim(req[Server].version) ELSE "error"
    /\ UNCHANGED <<before, steady>>

(* Everybody else, and the RPCs under way: the served version may move     *)
(* before the command's publish has read it.                               *)
ReadYet == stage = "publishing" /\ pc[Server] # "head"

Others ==
    /\ Next
    /\ stage \in {"reading", "publishing"} => ~Ends
    /\ steady' = (steady /\ (ReadYet \/ Served' = Served))
    /\ UNCHANGED <<stage, before, said>>

CommandNext == GetStarts \/ GetEnds \/ PublishStarts \/ PublishEnds \/ Others

CommandSpec == CommandInit /\ [][CommandNext]_compositionVars

(* main.go 618-621 and publish_test.go 24-25: the command claims that      *)
(* subscribers were notified exactly when the server sent an event for its *)
(* publish, unless the version it compares with was stale, or was replaced *)
(* before the publish read it, or the publish could not read it.           *)
ReportIsTrue ==
    [][stage = "publishing" /\ stage' = "none" /\ said' # "error" /\ steady
            /\ asOf[Server] # 0 =>
          (said' = "subscribers notified"
             <=> \E i \in 1 .. Len(events') : events'[i].change = done[Server])
      ]_compositionVars
=============================================================================
