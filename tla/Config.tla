-------------------------------- MODULE Config ------------------------------
(***************************************************************************)
(* internal/config and the flags of internal/cli: how a process arrives at *)
(* its configuration from the built-in defaults, the .env file, its        *)
(* environment and its command line.  Pure functions; module Cli has the   *)
(* processes.                                                              *)
(*                                                                         *)
(* The environment and the flags are functions from the settings they      *)
(* mention to what they say; the .env file is a sequence of lines.  What a *)
(* source says of a setting is a number, a text, nothing (set to the empty *)
(* string) or, for a number, something that does not parse.                *)
(***************************************************************************)
EXTENDS Integers, Sequences

CONSTANTS
    Default,     \* the built-in configuration
    EmptyText,   \* the empty string
    Typo,        \* a text that is not a number
    Comment,     \* a line of .env that is blank or a comment
    Malformed,   \* a line of .env without a "="
    Refused      \* an error instead of a configuration

MaxDifficulty == 8

Numbers == {"Difficulty", "MaxTxPerBlock", "MiningReward"}
Texts == {"DataFile", "KeyFile", "HTTPAddr", "MinerAddress"}
Settings == Numbers \union Texts

(***************************************************************************)
(* Config.Validate.                                                        *)
(***************************************************************************)
Validate(c) ==
    /\ c.Difficulty \in 1..MaxDifficulty
    /\ c.MaxTxPerBlock >= 1
    /\ \A s \in Texts : c[s] # EmptyText
    /\ c.MiningReward >= 0

ASSUME ConfigAssumption ==
    /\ DOMAIN Default = Settings /\ Validate(Default)
    /\ \A s \in Numbers : Default[s] \in Int

(***************************************************************************)
(* One source on top of another.                                           *)
(***************************************************************************)
Over(top, bottom) ==
    [s \in DOMAIN top \union DOMAIN bottom |->
        IF s \in DOMAIN top THEN top[s] ELSE bottom[s]]

\* Mutant (the file beats the environment).
ExportAlways(env, line) ==
    IF line = Comment THEN env ELSE Over([s \in {line.key} |-> line.value], env)

(***************************************************************************)
(* One line of .env: exported unless the environment has the key already,  *)
(* from the process or from an earlier line.                               *)
(***************************************************************************)
Export(env, line) ==
    IF line = Comment THEN env ELSE Over(env, [s \in {line.key} |-> line.value])

(***************************************************************************)
(* loadDotEnv on well-formed lines.                                        *)
(***************************************************************************)
LoadDotEnv(env, lines) ==
    LET after[i \in 0..Len(lines)] ==
            IF i = 0 THEN env ELSE Export(after[i - 1], lines[i])
    IN  after[Len(lines)]

(***************************************************************************)
(* envStr and envInt: a value that is absent or empty is the default.      *)
(***************************************************************************)
Value(env, s) ==
    IF s \in DOMAIN env /\ env[s] # EmptyText THEN env[s] ELSE Default[s]

(***************************************************************************)
(* Load.                                                                   *)
(***************************************************************************)
Load(env, lines) ==
    IF \E i \in 1..Len(lines) : lines[i] = Malformed THEN Refused
    ELSE LET all == LoadDotEnv(env, lines)
             c   == [s \in Settings |-> Value(all, s)]
         IN  IF (\E s \in Numbers : c[s] = Typo) \/ ~Validate(c)
             THEN Refused ELSE c

(***************************************************************************)
(* parseFlags: on top of what Load returned, and validated again.          *)
(***************************************************************************)
ParseFlags(c, flags) ==
    LET d == Over(flags, c)
    IN  IF (\E s \in DOMAIN flags \intersect Numbers :
                flags[s] \in {Typo, EmptyText}) \/ ~Validate(d)
        THEN Refused ELSE d

(***************************************************************************)
(* The whole: main loads the configuration and hands it to cli.Run.        *)
(***************************************************************************)
Configuration(env, lines, flags) ==
    LET c == Load(env, lines)
    IN  IF c = Refused THEN Refused ELSE ParseFlags(c, flags)

-----------------------------------------------------------------------------
(***************************************************************************)
(* The same from the package comment: "resolution order, last one wins:    *)
(* defaults, .env file, process environment, CLI flags".  Two rules are    *)
(* not in it: within .env the first line of a key wins, and an environment *)
(* variable that is set but empty hides the file and means the default.    *)
(***************************************************************************)
Said(lines) ==
    [s \in {lines[i].key : i \in {j \in DOMAIN lines : lines[j] # Comment}} |->
        LET first == CHOOSE i \in DOMAIN lines :
                        /\ lines[i] # Comment /\ lines[i].key = s
                        /\ \A j \in 1..(i - 1) :
                              lines[j] # Comment => lines[j].key # s
        IN  lines[first].value]

LastOneWins(env, lines, flags) ==
    [s \in Settings |->
        IF s \in DOMAIN flags THEN flags[s]
        ELSE IF s \in DOMAIN env
             THEN IF env[s] = EmptyText THEN Default[s] ELSE env[s]
        ELSE IF s \in DOMAIN Said(lines) /\ Said(lines)[s] # EmptyText
             THEN Said(lines)[s]
        ELSE Default[s]]
=============================================================================
