------------------------------- MODULE Config -------------------------------
(***************************************************************************)
(* config.py: the tunables, the SB_ variables that override them, and the  *)
(* part of them every row of results repeats.                              *)
(*                                                                         *)
(* Fractions are in hundredths.  What the string of a variable looks like  *)
(* is left out: a raw value is a record of what each conversion makes of   *)
(* it, under "int", "float", "bool", "tuple" and "str".                    *)
(***************************************************************************)
EXTENDS Integers

CONSTANTS ValueError    \* int() or float() of a string that is no number

Annotations ==
    [model_name |-> "str", model_revision |-> "str", max_tokens |-> "int",
     batch_size |-> "int", empty_text_policy |-> "str",
     recency_lambda |-> "float", label_threshold |-> "float",
     trajectory_divisor |-> "float", meaningful_min_turns |-> "int",
     roles_in_metrics |-> "tuple", score_agent_turns |-> "bool",
     lease_seconds |-> "int", max_delivery |-> "int", claim_batch |-> "int",
     poll_idle_seconds |-> "float", database_url |-> "str",
     schema_version |-> "str"]

Fields == DOMAIN Annotations

Defaults ==
    [model_name |-> "twitter-roberta", model_revision |-> "pinned",
     max_tokens |-> 512, batch_size |-> 32, empty_text_policy |-> "excluded",
     recency_lambda |-> 50, label_threshold |-> 15,
     trajectory_divisor |-> 200, meaningful_min_turns |-> 3,
     roles_in_metrics |-> <<"customer">>, score_agent_turns |-> FALSE,
     lease_seconds |-> 60, max_delivery |-> 3, claim_batch |-> 16,
     poll_idle_seconds |-> 100, database_url |-> "postgresql://localhost/sb",
     schema_version |-> "1.0.0"]

Coerce(field, raw) == raw[Annotations[field]]

(* from_env: the defaults under the variables that are set.  Variables that *)
(* name no field are ignored; nothing checks the range of a number.        *)
FromEnv(env) ==
    LET given == Fields \cap DOMAIN env
    IN  IF \E f \in given : Coerce(f, env[f]) = ValueError
        THEN ValueError
        ELSE [f \in Fields |-> IF f \in given THEN Coerce(f, env[f]) ELSE Defaults[f]]

(* Mutant: the trajectory is echoed by the name of its method only. *)
MetricParamsWithoutTrajectory(cfg) ==
    [lambda            |-> cfg.recency_lambda,
     label_threshold   |-> cfg.label_threshold,
     empty_text_policy |-> cfg.empty_text_policy,
     roles_in_metrics  |-> cfg.roles_in_metrics]

(* metric_params: what is echoed into the params of every row.             *)
MetricParams(cfg) ==
    [lambda               |-> cfg.recency_lambda,
     label_threshold      |-> cfg.label_threshold,
     B                    |-> cfg.trajectory_divisor,
     meaningful_min_turns |-> cfg.meaningful_min_turns,
     empty_text_policy    |-> cfg.empty_text_policy,
     roles_in_metrics     |-> cfg.roles_in_metrics]
=============================================================================
