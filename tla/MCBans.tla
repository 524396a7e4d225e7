------------------------------- MODULE MCBans -------------------------------
(***************************************************************************)
(* Bans with a history of whom /ac ban was told to ban, from its first     *)
(* write on.                                                               *)
(***************************************************************************)
EXTENDS Bans

VARIABLE ordered    \* the name a player who was in was last to be banned under

OrderedInit == Init /\ ordered = <<>>

OrderedNext == Next /\ ordered' = Override(ordered, tie')

OrderedSpec == OrderedInit /\ [][OrderedNext]_<<banVars, ordered>>

-----------------------------------------------------------------------------
(***************************************************************************)
(* What the manual says of /ac ban, "ban a player": from the command on    *)
(* the player stays out while the ban is in force.  A death between its    *)
(* two writes leaves the name banned and a player who was first seen under *)
(* another name free to come back under that or a third.                   *)
(***************************************************************************)
BanFollowsThePlayer ==
    [][\A a \in DOMAIN ordered :
          at[a] # "in" /\ at'[a] = "in" => ~isBanned(ordered[a])]_<<banVars, ordered>>
=============================================================================
