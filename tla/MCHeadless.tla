------------------------------- MODULE MCHeadless -------------------------------
(***************************************************************************)
(* The parts of the headless mode side by side: the run of serve_model,    *)
(* the transfers its API accepts, the certificates it makes.  They share   *)
(* no state, so every behaviour of all is one of each, and it is enough to *)
(* let one of them run at a time.                                          *)
(***************************************************************************)
EXTENDS Serve, FiniteSets

CONSTANTS
    Uploads, MaxRounds, Budget,
    Programs, MaxPairs, MaxFaults

\* The uploads at one time are as many as connections.
ASSUME UploadsAreFinite == IsFiniteSet(Uploads)

\* The limits of a run of the agent.
ASSUME AgentAssumption == MaxRounds \in Nat /\ Budget \in Nat

VARIABLES
    live,       \* the part that runs
    upload, id, tmp, dirs, alone, agent, messages,
    file, version, call, made, pairs, faults, lone

T == INSTANCE Transfers
C == INSTANCE TlsCerts

tVars == <<upload, id, tmp, dirs, alone, agent, messages>>
cVars == <<file, version, call, made, pairs, faults, lone>>
allVars == <<live, vars, tVars, cVars>>

HeadlessInit ==
    /\ Init /\ T!Init /\ C!Init
    /\ live \in {"serve", "transfers", "certs"}
    /\ live # "serve" => <<api, ws, tls>> = <<FALSE, FALSE, FALSE>>

ServeStep(A) == live = "serve" /\ A /\ UNCHANGED <<live, tVars, cVars>>
TransfersStep(A) == live = "transfers" /\ A /\ UNCHANGED <<live, vars, cVars>>
CertsStep(A) == live = "certs" /\ A /\ UNCHANGED <<live, vars, tVars>>

HeadlessNext == ServeStep(Next) \/ TransfersStep(T!Next) \/ CertsStep(C!Next)

\* What Serve and Transfers assume.
HeadlessFairness ==
    /\ WF_allVars(ServeStep(MainStep)) /\ WF_allVars(ServeStep(GoesOn))
    /\ WF_allVars(ServeStep(LineStep)) /\ WF_allVars(ServeStep(ParserStep))
    /\ WF_allVars(ServeStep(Poll)) /\ WF_allVars(ServeStep(ProxyStep))
    /\ WF_allVars(ServeStep(RequestEnds))
    /\ WF_allVars(TransfersStep(T!Command \/ T!Nudge))

HeadlessSpec == HeadlessInit /\ [][HeadlessNext]_allVars /\ HeadlessFairness

-----------------------------------------------------------------------------
(***************************************************************************)
(* The properties of the parts, where their modules state them.            *)
(***************************************************************************)

\* An upload that is reported and a pair that is used are whole.
FilesAreWhole == T!UploadIsWhole /\ C!PairIsWhole

\* The agent stops.
AgentEnds == T!AgentEnds
=============================================================================
