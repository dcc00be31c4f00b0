------------------------------ MODULE MCServices ------------------------------
(* LoginGate, Accounts, Invitations, Decoration, Learning and Snowflake    *)
(* share no state: a behaviour of this module is one of a single component,*)
(* chosen at the start, while the others stand still.                      *)
EXTENDS LoginGate, Accounts, Invitations, Decoration, Learning, Snowflake, TLC

CONSTANTS r1, r2, c1, g1, i1

VARIABLE focus

vars == <<focus, gateVars, accountVars, inviteVars, configVars, learningVars, snowVars>>

Components == {"gate", "accounts", "invitations", "decoration", "learning",
               "snowflake"}

ServicesInit ==
  /\ focus \in Components
  /\ GateInit /\ AccountInit /\ InviteInit /\ ConfigInit
  /\ LearningInit /\ SnowInit
  /\ focus # "accounts" => kind = "user" /\ ~outdated0
  /\ focus # "invitations" => rule
  /\ focus # "learning" => base = 0

GateStands == UNCHANGED gateVars
AccountsStand == UNCHANGED accountVars
InvitesStand == UNCHANGED inviteVars
ConfigStands == UNCHANGED configVars
LearningStands == UNCHANGED learningVars
SnowStands == UNCHANGED snowVars

\* The components without one of them stand still.
GateAlone ==
  /\ focus = "gate" /\ UNCHANGED focus
  /\ AccountsStand /\ InvitesStand /\ ConfigStands /\ LearningStands /\ SnowStands
AccountsAlone ==
  /\ focus = "accounts" /\ UNCHANGED focus
  /\ GateStands /\ InvitesStand /\ ConfigStands /\ LearningStands /\ SnowStands
InvitesAlone ==
  /\ focus = "invitations" /\ UNCHANGED focus
  /\ GateStands /\ AccountsStand /\ ConfigStands /\ LearningStands /\ SnowStands
ConfigAlone ==
  /\ focus = "decoration" /\ UNCHANGED focus
  /\ GateStands /\ AccountsStand /\ InvitesStand /\ LearningStands /\ SnowStands
LearningAlone ==
  /\ focus = "learning" /\ UNCHANGED focus
  /\ GateStands /\ AccountsStand /\ InvitesStand /\ ConfigStands /\ SnowStands
SnowAlone ==
  /\ focus = "snowflake" /\ UNCHANGED focus
  /\ GateStands /\ AccountsStand /\ InvitesStand /\ ConfigStands /\ LearningStands

ServicesNext ==
  \/ GateAlone /\ GateNext
  \/ AccountsAlone /\ AccountNext
  \/ InvitesAlone /\ InviteNext
  \/ ConfigAlone /\ ConfigNext
  \/ LearningAlone /\ LearningNext
  \/ SnowAlone /\ SnowNext

\* A window of login failures ends, and Redis drops an entry, when its time is
\* over.
TimePasses ==
  /\ WF_vars(WindowPasses /\ GateAlone)
  /\ WF_vars(expire /\ ConfigAlone)

ServicesSpec == ServicesInit /\ [][ServicesNext]_vars /\ TimePasses
=============================================================================
