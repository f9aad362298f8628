-------------------------------- MODULE MCCli -------------------------------
(***************************************************************************)
(* Instances of Cli for TLC.                                               *)
(***************************************************************************)
EXTENDS Cli, TLC

CONSTANTS alice, bob, chainJson, keysJson, otherJson, addr

MCDefault ==
    [Difficulty |-> 4, MaxTxPerBlock |-> 10, MiningReward |-> 50,
     DataFile |-> chainJson, KeyFile |-> keysJson,
     HTTPAddr |-> addr, MinerAddress |-> alice]

Line(s, v) == [key |-> s, value |-> v]

Nothing == [s \in {} |-> s]

(***************************************************************************)
(* Two settings vary, a text that matters to what follows and a number     *)
(* that may be good, out of range, empty or a typo.                        *)
(***************************************************************************)
MCEnvironments ==
    {Nothing, "KeyFile" :> otherJson, "KeyFile" :> EmptyText,
     "Difficulty" :> 9, "Difficulty" :> Typo, "Difficulty" :> EmptyText}

MCDotEnvs ==
    {<< >>,
     <<Comment, Line("KeyFile", otherJson), Line("KeyFile", keysJson)>>,
     <<Line("Difficulty", 0), Comment>>,
     <<Line("Difficulty", EmptyText), Line("Difficulty", Typo)>>,
     <<Line("KeyFile", otherJson), Malformed>>}

MCFlagSets ==
    {Nothing, "KeyFile" :> keysJson, "KeyFile" :> EmptyText,
     "Difficulty" :> 6, "Difficulty" :> 0, "Difficulty" :> Typo}

Symmetry == Permutations(Keys)
=============================================================================
