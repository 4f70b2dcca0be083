------------------------------ MODULE MCCommands ------------------------------
(***************************************************************************)
(* The commands of the project for TLC: a session with the scripts, or one *)
(* that starts a pipeline.                                                 *)
(***************************************************************************)
EXTENDS Evaluation, Configuration

VARIABLE session

\* Nothing tells the blocks apart but their lines and their labels.
BlockSymmetry == Permutations(Blocks)

\* A lifecycle of four of the six kinds, and two of the three exception events.
ShortLifecycle == <<"E22", "E5", "E9", "E21">>

\* What data/HDFS_v1_sample/HDFS_2k.log_templates.csv makes of the generator's
\* lines: two kinds match one template, and two exception events match none.
SampleTemplates(kind) ==
  CASE kind = "E22" -> "E7" [] kind = "E21" -> "E9" [] kind = "E26" -> "E6"
    [] kind \in {"E4", "E14"} -> NoEvent
    [] OTHER -> kind

\* What InjectedCaught needs holds here, and of the generator as it is, at the n
\* that the trainer has by default.
ASSUME ShortIsTellable == Tellable

Generator == INSTANCE Evaluation WITH
  Lifecycle <- <<"E22", "E5", "E26", "E11", "E9", "E21">>,
  ExceptionEvents <- {"E4", "E10", "E14"},
  N <- 2

ASSUME GeneratorIsTellable == Generator!Tellable

File(p) == [kind |-> "file", path |-> p]
Defaults == [n \in Names |-> Unset]
Part(kind, args) == <<[kind |-> kind, args |-> args]>>
Argument(kind, n, v) == Part(kind, [Defaults EXCEPT ![n] = v])
Sequence(kind, threshold, file) == [kind |-> kind, threshold |-> threshold, model |-> file]
Runtime(w, q, b) == [num_workers |-> w, queue_size |-> q, batch_size |-> b]

Options ==
  [yaml |-> {"absent", "malformed", "present"},
   extra |-> BOOLEAN,
   source |-> {File(p) : p \in {"none", "absent", "present"}}
                \cup {[kind |-> k, path |-> "none"] : k \in {"stdin", "iterable", "other"}},
   parser |-> {"hdfs", "other"},
   validation |-> {<<>>, Part("other", Defaults), Part("schema", Defaults)}
                    \cup {Argument("rate_limit", "capacity", v) : v \in {0, 1}},
   templates |-> {"off", "absent", "present"},
   sessionizer |-> [enabled : BOOLEAN,
                    limits : {{0, 30}, {2, 30}, {2, Fraction}, {2, NotANumber}}],
   detectors |-> {<<>>, Part("other", Defaults), Part("cusum", Defaults)}
                   \cup {Argument("iqr", "min_samples", v) : v \in {3, 4}},
   sequence |-> {Unset, Sequence("other", 0, "present")}
                  \cup {Sequence("sequence_ngram", t, "present") : t \in {-1, Fraction, NotANumber}}
                  \cup {Sequence("sequence_ngram", 0, m) : m \in Presence},
   repository |-> [kind : {"memory", "postgres", "other"}, dsn : Presence],
   runtime |-> {Runtime(4, 9, 5), Runtime(0, 9, 5), Runtime(65, 9, 5), Runtime(4, 0, 5),
                Runtime(4, 9, 0)}]

Sound == [yaml |-> "present", extra |-> FALSE, source |-> File("present"), parser |-> "hdfs",
          validation |-> <<>>, templates |-> "off",
          sessionizer |-> [enabled |-> TRUE, limits |-> {2, 30}], detectors |-> <<>>,
          sequence |-> Unset, repository |-> [kind |-> "memory", dsn |-> "absent"],
          runtime |-> Runtime(4, 9, 5)]

\* What an argument can be: every number next to a bound, and the other values.
Values == -1..4 \cup {Fraction, NotANumber, Text}

\* A sound file with any two of its sections changed, or with one validator or
\* detector of any kind with any one of the arguments.
SomeFiles ==
  UNION {{[Sound EXCEPT ![f] = v, ![g] = w] : v \in Options[f], w \in Options[g]} :
           f \in DOMAIN Options, g \in DOMAIN Options}
    \cup {[Sound EXCEPT !.validation = Argument(kind, n, v)] :
             kind \in {"schema", "size", "rate_limit"}, n \in Names, v \in Values}
    \cup {[Sound EXCEPT !.detectors = Argument(kind, n, v)] :
             kind \in NumericKinds, n \in Names, v \in Values}

CommandsInit ==
  \/ /\ session = "scripts"
     /\ EvaluationInit
     /\ config = Sound /\ workers = Unset /\ path = Unset
     /\ ConfigInit
  \/ /\ session = "run"
     /\ format = "bgl"
     /\ EvaluationInit
     /\ ConfigInit

Over == report # None \/ phase \in {"built", "failed"}

CommandsNext ==
  \/ session = "scripts" /\ EvaluationNext /\ UNCHANGED <<session, configVars>>
  \/ session = "run" /\ ConfigNext /\ UNCHANGED <<session, evaluationVars>>
  \/ Over /\ UNCHANGED <<session, evaluationVars, configVars>>

Spec == CommandsInit /\ [][CommandsNext]_<<session, evaluationVars, configVars>>

===============================================================================
