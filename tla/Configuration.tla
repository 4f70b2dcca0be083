----------------------------- MODULE Configuration -----------------------------
(***************************************************************************)
(* `pipelinex run` until the executor starts: core/config.py reads and     *)
(* checks the file, cli.py overrides two of its fields without a check,    *)
(* and core/builder.py, with the factories, constructs the parts one after *)
(* the other.  Nothing suspends on the way, and the first part that cannot *)
(* be had ends the command with an exception.                              *)
(*                                                                         *)
(* A field is what the checks tell apart: the kinds are those the factories*)
(* know and "other"; files and the DSN are "absent", "malformed" or        *)
(* "present".  The models of a validator and of a detector allow extra     *)
(* fields and hand them to the constructor as they are: an argument has a  *)
(* value of any type, or is Unset and has its default.                     *)
(***************************************************************************)
EXTENDS Integers, Sequences, FiniteSets, Filtering

CONSTANTS
  Files,         \* the configurations: [yaml, extra, source, parser, ...]
  WorkersFlags,  \* --workers: a number, or Unset
  PathFlags,     \* --source-path: "absent", "present", or Unset
  Unset,         \* no flag, or no such section or field in the file
  Fraction,      \* a number that is not whole, above every bound of a check
  NotANumber,    \* .nan, which no comparison holds of
  Text           \* a value that is no number

\* What a file can say, and the flags.
Presence == {"absent", "malformed", "present"}
Sources == [kind : {"file", "stdin", "iterable", "other"}, path : {"none", "absent", "present"}]

Numbers == Int \cup {Fraction, NotANumber}

\* The arguments of the constructors of validators and detectors, and "other" for
\* one that no constructor has.  A source_dict that is set is neither of the two
\* there are; require_message and require_source take any value.
Counts == {"window_size", "min_samples", "warmup_samples", "capacity", "max_message_bytes"}
Amounts == {"threshold", "k", "slack", "refill_per_sec"}
Names == Counts \cup Amounts \cup {"source_dict", "clock", "allowed_severities", "other"}
Arguments == [Names -> Numbers \cup {Text, Unset}]
Parts == [kind : STRING, args : Arguments]

Configs ==
  [yaml : Presence, extra : BOOLEAN, source : Sources, parser : STRING,
   validation : Seq(Parts), templates : {"off"} \cup Presence,
   sessionizer : [enabled : BOOLEAN, limits : SUBSET Numbers], detectors : Seq(Parts),
   sequence : {Unset} \cup [kind : STRING, threshold : Numbers, model : Presence],
   repository : [kind : STRING, dsn : Presence],
   runtime : [num_workers : Int, queue_size : Int, batch_size : Int]]

ASSUME FilesAssumption ==
  /\ Files \subseteq Configs
  /\ WorkersFlags \subseteq Int \cup {Unset}
  /\ PathFlags \subseteq {"absent", "present", Unset}
  /\ {Unset, Fraction, NotANumber, Text} \cap Int = {}
  /\ Fraction # NotANumber /\ Unset \notin {Fraction, NotANumber, Text}
  /\ Text \notin {Fraction, NotANumber}

VARIABLES
  phase,    \* "start", "loaded", "overridden", "built", "failed"
  config,   \* the PipelineConfig
  workers,  \* --workers
  path,     \* --source-path
  error     \* the type of the exception that ended the command, or "none"

configVars == <<phase, config, workers, path, error>>

ConfigInit ==
  /\ phase = "start"
  /\ config \in Files
  /\ workers \in WorkersFlags
  /\ path \in PathFlags
  /\ error = "none"

Fail(e) == phase' = "failed" /\ error' = e
Pass(next) == phase' = next /\ UNCHANGED error

-------------------------------------------------------------------------------
(* load_config and parse_config *)

SourceValid(s) == s.kind \in {"file", "stdin", "iterable"} /\ (s.kind = "file" => s.path # "none")

RepositoryValid(r) == r.kind \in {"memory", "postgres"} /\ (r.kind = "postgres" => r.dsn # "absent")

\* RuntimeConfig with one Field(ge=1) less.
RuntimeValidButBatch(r) == r.num_workers \in 1..64 /\ r.queue_size >= 1

RuntimeValid(r) ==
  r.num_workers \in 1..64 /\ r.queue_size >= 1 /\ r.batch_size >= 1

\* PipelineConfig.model_validate; extra is an unknown field outside of the
\* validators and detectors.
Valid(c) ==
  /\ ~c.extra
  /\ SourceValid(c.source)
  /\ \A i \in DOMAIN c.validation : c.validation[i].kind \in {"schema", "size", "rate_limit"}
  /\ RepositoryValid(c.repository)
  /\ RuntimeValid(c.runtime)

Load ==
  /\ phase = "start"
  /\ IF config.yaml = "present" /\ Valid(config) THEN Pass("loaded")
     ELSE Fail("ConfigurationError")
  /\ UNCHANGED <<config, workers, path>>

\* cli._run: assignments to the model, which pydantic does not check.
Override ==
  /\ phase = "loaded"
  /\ config' =
       [config EXCEPT
          !.source = IF path # Unset THEN [kind |-> "file", path |-> path] ELSE @,
          !.runtime.num_workers = IF workers # Unset THEN workers ELSE @]
  /\ Pass("overridden")
  /\ UNCHANGED <<workers, path>>

-------------------------------------------------------------------------------
(* build_pipeline: what each of its parts raises, "none" if it is built *)

Exceptions == {"ConfigurationError", "SourceError", "SQLAlchemyError", "ValueError", "TypeError"}

\* The checks of one part end at the first that fails.
First(errors) ==
  LET raised == Filter(errors, Exceptions) IN IF raised = <<>> THEN "none" ELSE Head(raised)

\* create_async_engine parses the DSN.
RepositoryError(c) ==
  IF c.repository = [kind |-> "postgres", dsn |-> "malformed"] THEN "SQLAlchemyError" ELSE "none"

FileError(c) == IF c.source = [kind |-> "file", path |-> "absent"] THEN "SourceError" ELSE "none"

\* The kinds that the two default_factory() register.
ParserKinds == {"hdfs", "hdfs_structured_csv", "bgl"}
NumericKinds == {"z_score", "iqr", "cusum"}
SequenceKinds == {"sequence_ngram"}

\* create() of a factory.
Registered(kind, kinds) == IF kind \in kinds THEN "none" ELSE "ConfigurationError"

ParserError(c) == Registered(c.parser, ParserKinds)

\* A call with arguments that the constructor does not have.
Unknown(args, names) == IF \A n \in Names \ names : args[n] = Unset THEN "none" ELSE "TypeError"

Given(value, default) == IF value = Unset THEN default ELSE value

\* if value < least: raise ValueError.
AtLeast(least, value) ==
  CASE value = Text -> "TypeError"
    [] value \in Int /\ value < least -> "ValueError"
    [] OTHER -> "none"

\* deque(maxlen=value)
Length(value) == IF value \in Int THEN "none" ELSE "TypeError"

SourceDict(args) == IF args["source_dict"] = Unset THEN "none" ELSE "ValueError"

SchemaError(args) ==
  First(<<Unknown(args, {"allowed_severities"}),
          IF args["allowed_severities"] \in Numbers THEN "TypeError" ELSE "none">>)

SizeError(args) ==
  First(<<Unknown(args, {"max_message_bytes"}),
          AtLeast(1, Given(args["max_message_bytes"], 65536))>>)

RateLimitError(args) ==
  First(<<Unknown(args, {"capacity", "refill_per_sec", "clock"}),
          AtLeast(1, Given(args["capacity"], 1000)),
          AtLeast(1, Given(args["refill_per_sec"], 1000))>>)

ZScoreError(args) ==
  LET window == Given(args["window_size"], 100)
  IN  First(<<Unknown(args, {"threshold", "window_size", "min_samples", "source_dict"}),
              AtLeast(2, window), AtLeast(1, Given(args["threshold"], 3)),
              AtLeast(2, Given(args["min_samples"], 30)), SourceDict(args), Length(window)>>)

IqrError(args) ==
  LET window == Given(args["window_size"], 100)
  IN  First(<<Unknown(args, {"k", "window_size", "min_samples", "source_dict"}),
              AtLeast(2, window), AtLeast(1, Given(args["k"], Fraction)),
              AtLeast(4, Given(args["min_samples"], 30)), SourceDict(args), Length(window)>>)

CusumError(args) ==
  LET warmup == Given(args["warmup_samples"], 30)
  IN  First(<<Unknown(args, {"threshold", "slack", "warmup_samples", "source_dict"}),
              AtLeast(1, Given(args["threshold"], 5)), AtLeast(0, Given(args["slack"], Fraction)),
              AtLeast(2, warmup), SourceDict(args), Length(warmup)>>)

ValidatorError(v) ==
  CASE v.kind = "schema" -> SchemaError(v.args)
    [] v.kind = "size" -> SizeError(v.args)
    [] OTHER -> RateLimitError(v.args)

DetectorError(d) ==
  CASE d.kind = "z_score" -> ZScoreError(d.args)
    [] d.kind = "iqr" -> IqrError(d.args)
    [] d.kind = "cusum" -> CusumError(d.args)
    [] OTHER -> Registered(d.kind, NumericKinds)

ValidatorErrors(c) == [i \in DOMAIN c.validation |-> ValidatorError(c.validation[i])]
DetectorErrors(c) == [i \in DOMAIN c.detectors |-> DetectorError(c.detectors[i])]

TemplateError(c) == IF c.templates = "absent" THEN "ConfigurationError" ELSE "none"

SessionizerError(c) ==
  IF c.sessionizer.enabled /\ \E limit \in c.sessionizer.limits \cap Int : limit <= 0
  THEN "ValueError" ELSE "none"

\* A model file that is absent is no error: the detector starts empty.  Malformed
\* is one that is no JSON, or whose n is not an integer; nothing is asked of the
\* integer.
SequenceErrors(c) ==
  IF c.sequence = Unset THEN <<>>
  ELSE <<Registered(c.sequence.kind, SequenceKinds),
         AtLeast(0, c.sequence.threshold),
         IF c.sequence.model = "malformed" THEN "ValueError" ELSE "none">>

BuildErrors(c) ==
  Filter(<<RepositoryError(c), FileError(c), ParserError(c)>>
           \o ValidatorErrors(c) \o <<TemplateError(c), SessionizerError(c)>>
           \o DetectorErrors(c) \o SequenceErrors(c),
         Exceptions)

Build ==
  /\ phase = "overridden"
  /\ IF BuildErrors(config) = <<>> THEN Pass("built") ELSE Fail(Head(BuildErrors(config)))
  /\ UNCHANGED <<config, workers, path>>

ConfigNext == Load \/ Override \/ Build

-------------------------------------------------------------------------------
(* Properties *)

\* The arguments of the file are what the constructors declare.
DeclaredTypes(args) ==
  /\ \A n \in Counts : args[n] \in Int \cup {Unset}
  /\ \A n \in Amounts : args[n] \in Int \cup {Fraction, Unset}
  /\ args["clock"] = Unset

Sane(c) ==
  /\ \A i \in DOMAIN c.validation : DeclaredTypes(c.validation[i].args)
  /\ \A i \in DOMAIN c.detectors : DeclaredTypes(c.detectors[i].args)
  /\ NotANumber \notin c.sessionizer.limits
  /\ c.sequence # Unset => c.sequence.threshold # NotANumber

Positive(value) == value = Fraction \/ value \in Nat \ {0}

ValidatorWithin(v) ==
  v.kind = "rate_limit" =>
    /\ Given(v.args["capacity"], 1000) \in Nat \ {0}
    /\ Positive(Given(v.args["refill_per_sec"], 1000))

DetectorWithin(d) ==
  /\ d.kind \in NumericKinds
  /\ d.kind = "z_score" =>
       /\ Given(d.args["window_size"], 100) \in Nat \ {0, 1}
       /\ Given(d.args["min_samples"], 30) \in Nat \ {0, 1}
       /\ Positive(Given(d.args["threshold"], 3))
  /\ d.kind = "iqr" =>
       /\ Given(d.args["window_size"], 100) \in Nat \ {0, 1}
       /\ Given(d.args["min_samples"], 30) \in Nat \ 0..3
       /\ Positive(Given(d.args["k"], Fraction))
  /\ d.kind = "cusum" =>
       /\ Given(d.args["warmup_samples"], 30) \in Nat \ {0, 1}
       /\ Positive(Given(d.args["threshold"], 5))
       /\ Given(d.args["slack"], Fraction) \in Nat \cup {Fraction}

WithinAssumptions(c) ==
  /\ workers = Unset => c.runtime.num_workers \in 1..64
  /\ c.runtime.queue_size \in Nat \ {0} /\ c.runtime.batch_size \in Nat \ {0}
  /\ c.sessionizer.enabled => \A limit \in c.sessionizer.limits : Positive(limit)
  /\ \A i \in DOMAIN c.validation : ValidatorWithin(c.validation[i])
  /\ \A i \in DOMAIN c.detectors : DetectorWithin(c.detectors[i])
  /\ c.sequence # Unset => c.sequence.threshold \in Nat \cup {Fraction}

\* If the arguments in the file are numbers of the types that the constructors
\* declare, which nothing checks as such, then whatever is built has the numbers
\* that the models of its parts assume: the ranges of PipelineExecutor's queue and
\* batch and of BlockSessionizer's limits, the bucket of ValidationChain, the
\* windows, sample counts and thresholds of NumericDetectors, the threshold of
\* SequenceDetector.  The flag --workers is checked by nobody and is left out.
BuildsWithinAssumptions == phase = "built" /\ Sane(config) => WithinAssumptions(config)

===============================================================================
