------------------------------- MODULE Services -------------------------------
(***************************************************************************)
(* The services that share no rows with each other: lease contracts, the   *)
(* account and its credentials, the administrators, identity verification, *)
(* the images, the number and the boosts of a user's listings, the search  *)
(* for them, the allowances of the plans, mails and smart matching,        *)
(* support, notifications and sockets.                                     *)
(*                                                                         *)
(* No action of one of them reads or writes what belongs to another, so a  *)
(* property of one holds beside the others if it holds while they rest.    *)
(***************************************************************************)
EXTENDS LeaseContract, Accounts, EmailCodes, PasswordReset, AdminTeam,
        Verification, ListingImages, Capacity, Boosts, BackgroundJobs,
        SupportTickets, SupportQueue, Notifications, Sockets, SearchIndex,
        Allowances

VARIABLE service   \* the one that is at work in this behaviour

workVars == <<leaseVars, accountVars, codeVars, resetVars, teamVars, kycVars,
              imageVars, capacityVars, boostVars, jobVars, supportVars,
              queueVars, noteVars, socketVars, searchVars, allowanceVars>>

vars == <<service, workVars>>

Services == {"lease", "accounts", "codes", "reset", "team", "kyc", "images",
             "capacity", "boosts", "jobs", "support", "queue", "notes",
             "sockets", "search", "allowances"}

WorkInit ==
    /\ LeaseInit
    /\ AccountsInit
    /\ EmailCodesInit
    /\ PasswordResetInit
    /\ AdminTeamInit
    /\ VerificationInit
    /\ ListingImagesInit
    /\ CapacityInit
    /\ BoostsInit
    /\ JobsInit
    /\ SupportInit
    /\ QueueInit
    /\ NotificationsInit
    /\ SocketsInit
    /\ SearchInit
    /\ AllowancesInit

Init ==
    /\ service \in Services
    /\ WorkInit
    \* Services that rest begin in one state.
    /\ service # "team" => Admins = {}
    /\ service # "capacity" => \A n \in Limits : limit <= n
    /\ service # "allowances" => \A n \in Amounts : allowance <= n
    /\ service # "search" => \A l \in SearchListings : "phrase" \in offers[l].facts

OthersRest(s) ==
    /\ s # "lease" => UNCHANGED leaseVars
    /\ s # "accounts" => UNCHANGED accountVars
    /\ s # "codes" => UNCHANGED codeVars
    /\ s # "reset" => UNCHANGED resetVars
    /\ s # "team" => UNCHANGED teamVars
    /\ s # "kyc" => UNCHANGED kycVars
    /\ s # "images" => UNCHANGED imageVars
    /\ s # "capacity" => UNCHANGED capacityVars
    /\ s # "boosts" => UNCHANGED boostVars
    /\ s # "jobs" => UNCHANGED jobVars
    /\ s # "support" => UNCHANGED supportVars
    /\ s # "queue" => UNCHANGED queueVars
    /\ s # "notes" => UNCHANGED noteVars
    /\ s # "sockets" => UNCHANGED socketVars
    /\ s # "search" => UNCHANGED searchVars
    /\ s # "allowances" => UNCHANGED allowanceVars

\* Only s takes a step.
Alone(s) ==
    /\ service = s
    /\ UNCHANGED service
    /\ OthersRest(s)

Next ==
    \/ Alone("lease") /\ LeaseNext
    \/ Alone("accounts") /\ AccountsNext
    \/ Alone("codes") /\ EmailCodesNext
    \/ Alone("reset") /\ PasswordResetNext
    \/ Alone("team") /\ AdminTeamNext
    \/ Alone("kyc") /\ VerificationNext
    \/ Alone("images") /\ ListingImagesNext
    \/ Alone("capacity") /\ CapacityNext
    \/ Alone("boosts") /\ BoostsNext
    \/ Alone("jobs") /\ JobsNext
    \/ Alone("support") /\ SupportNext
    \/ Alone("queue") /\ QueueNext
    \/ Alone("notes") /\ NotificationsNext
    \/ Alone("sockets") /\ SocketsNext
    \/ Alone("search") /\ SearchNext
    \/ Alone("allowances") /\ AllowancesNext

Spec == Init /\ [][Next]_vars

----------------------------------------------------------------------------
(* All services at work in one behaviour, their steps in any order.  TLC   *)
(* explores Spec, one service at a time; the proofs are about this one.    *)

WorkNext ==
    \/ OthersRest("lease") /\ LeaseNext
    \/ OthersRest("accounts") /\ AccountsNext
    \/ OthersRest("codes") /\ EmailCodesNext
    \/ OthersRest("reset") /\ PasswordResetNext
    \/ OthersRest("team") /\ AdminTeamNext
    \/ OthersRest("kyc") /\ VerificationNext
    \/ OthersRest("images") /\ ListingImagesNext
    \/ OthersRest("capacity") /\ CapacityNext
    \/ OthersRest("boosts") /\ BoostsNext
    \/ OthersRest("jobs") /\ JobsNext
    \/ OthersRest("support") /\ SupportNext
    \/ OthersRest("queue") /\ QueueNext
    \/ OthersRest("notes") /\ NotificationsNext
    \/ OthersRest("sockets") /\ SocketsNext
    \/ OthersRest("search") /\ SearchNext
    \/ OthersRest("allowances") /\ AllowancesNext

WorkSpec == WorkInit /\ [][WorkNext]_workVars

----------------------------------------------------------------------------

\* Every service keeps to its types, counters that never fall below zero among
\* them (boost credits, offers), whatever its handlers and jobs do at once.
ServicesTypeOK ==
    /\ LeaseTypeOK
    /\ AccountsTypeOK
    /\ EmailCodesTypeOK
    /\ PasswordResetTypeOK
    /\ AdminTeamTypeOK
    /\ VerificationTypeOK
    /\ ListingImagesTypeOK
    /\ CapacityTypeOK
    /\ BoostsTypeOK
    /\ JobsTypeOK
    /\ SupportTypeOK
    /\ QueueTypeOK
    /\ NotificationsTypeOK
    /\ SocketsTypeOK
    /\ SearchTypeOK
    /\ AllowancesTypeOK
=============================================================================
