----------------------------- MODULE CommandsProofs -----------------------------
(***************************************************************************)
(* The commands: what a pipeline is built from, for every configuration    *)
(* and every flag, and what the scripts report, for every log, label, cap  *)
(* and window.                                                             *)
(***************************************************************************)
EXTENDS Evaluation, Configuration, Induction, FiniteSetTheorems, SequenceTheorems

ConfigSpec == ConfigInit /\ [][ConfigNext]_configVars

\* What the checks so far have established.
Checked ==
  /\ config \in Configs
  /\ workers \in Int \cup {Unset} /\ path \in {"absent", "present", Unset}
  /\ phase \in {"start", "loaded", "overridden", "built", "failed"}
  /\ phase = "loaded" => Valid(config)
  /\ phase \in {"overridden", "built"} =>
       /\ workers = Unset => config.runtime.num_workers \in 1..64
       /\ config.runtime.queue_size >= 1 /\ config.runtime.batch_size >= 1
  /\ phase = "built" => BuildErrors(config) = <<>>

LEMMA CheckedStep == Checked /\ [ConfigNext]_configVars => Checked'
<1> SUFFICES ASSUME Checked, [ConfigNext]_configVars PROVE Checked'
  OBVIOUS
<1>1. CASE Load
  <2>1. UNCHANGED <<config, workers, path>>
    BY <1>1 DEF Load
  <2>2. (phase' = "loaded" /\ Valid(config)) \/ phase' = "failed"
    BY <1>1 DEF Load, Pass, Fail
  <2>3. QED
    BY <2>1, <2>2 DEF Checked, Valid, RuntimeValid
<1>2. CASE Override
  <2>1. phase = "loaded" /\ phase' = "overridden" /\ UNCHANGED <<workers, path>>
    BY <1>2 DEF Override, Pass
  <2>2. /\ config \in Configs /\ workers \in Int \cup {Unset} /\ path \in {"absent", "present", Unset}
        /\ Valid(config)
    BY <2>1 DEF Checked
  <2> DEFINE source == IF path # Unset THEN [kind |-> "file", path |-> path] ELSE config.source
             number == IF workers # Unset THEN workers ELSE config.runtime.num_workers
  <2>3. config' = [config EXCEPT !.source = source, !.runtime.num_workers = number]
    BY <1>2 DEF Override
  <2>4. source \in Sources /\ number \in Int
    <3>1. config.source \in Sources /\ config.runtime.num_workers \in Int
      BY <2>2 DEF Configs
    <3>2. path # Unset => [kind |-> "file", path |-> path] \in Sources
      BY <2>2 DEF Sources
    <3>3. QED
      BY <2>2, <3>1, <3>2
  <2>5. number = IF workers # Unset THEN workers ELSE config.runtime.num_workers
    OBVIOUS
  <2> HIDE DEF source, number
  <2>6. config' \in Configs
    BY <2>2, <2>3, <2>4 DEF Configs
  <2>7. /\ config'.runtime.queue_size = config.runtime.queue_size
        /\ config'.runtime.batch_size = config.runtime.batch_size
        /\ config'.runtime.num_workers = number
    BY <2>2, <2>3 DEF Configs
  <2>8. QED
    BY <2>1, <2>2, <2>5, <2>6, <2>7 DEF Checked, Valid, RuntimeValid
<1>3. CASE Build
  <2>1. phase = "overridden" /\ UNCHANGED <<config, workers, path>>
    BY <1>3 DEF Build
  <2>2. (phase' = "built" /\ BuildErrors(config) = <<>>) \/ phase' = "failed"
    BY <1>3 DEF Build, Pass, Fail
  <2>3. QED
    BY <2>1, <2>2 DEF Checked
<1>4. CASE UNCHANGED configVars
  BY <1>4 DEF configVars, Checked
<1>5. QED
  BY <1>1, <1>2, <1>3, <1>4 DEF ConfigNext

\* A list of errors that leaves none after the filter has none.
LEMMA NoErrors ==
  ASSUME NEW s \in Seq(Exceptions \cup {"none"}), Filter(s, Exceptions) = <<>>,
         NEW i \in DOMAIN s
  PROVE  s[i] = "none"
<1>1. Range(Filter(s, Exceptions)) = Range(s) \cap Exceptions
  BY FilterKeeps
<1>2. Range(s) \cap Exceptions = {}
  BY <1>1 DEF Range
<1>3. s[i] \in Exceptions \cup {"none"}
  OBVIOUS
<1>4. QED
  BY <1>2, <1>3 DEF Range

NoneIn(s) == \A i \in DOMAIN s : s[i] = "none"

LEMMA NoneInBoth ==
  ASSUME NEW D, NEW s \in Seq(D), NEW t \in Seq(D)
  PROVE  s \o t \in Seq(D) /\ (NoneIn(s \o t) => NoneIn(s) /\ NoneIn(t))
<1>1. /\ s \o t \in Seq(D) /\ Len(s \o t) = Len(s) + Len(t)
      /\ \A i \in 1..(Len(s) + Len(t)) :
           (s \o t)[i] = IF i <= Len(s) THEN s[i] ELSE t[i - Len(s)]
  BY ConcatProperties
<1>2. Len(s) \in Nat /\ Len(t) \in Nat /\ DOMAIN s = 1..Len(s) /\ DOMAIN t = 1..Len(t)
  OBVIOUS
<1>3. PICK u \in Seq(D) : u = s \o t
  BY <1>1
<1>4. DOMAIN u = 1..(Len(s) + Len(t))
  BY <1>1, <1>3
<1>5. ASSUME NoneIn(u) PROVE NoneIn(s) /\ NoneIn(t)
  <2>1. ASSUME NEW i \in 1..Len(s) PROVE s[i] = "none"
    <3>1. i \in DOMAIN u /\ u[i] = s[i]
      BY <1>1, <1>2, <1>3, <1>4
    <3>2. QED
      BY <1>5, <3>1 DEF NoneIn
  <2>2. ASSUME NEW i \in 1..Len(t) PROVE t[i] = "none"
    <3>1. Len(s) + i \in DOMAIN u /\ u[Len(s) + i] = t[i]
      BY <1>1, <1>2, <1>3, <1>4
    <3>2. QED
      BY <1>5, <3>1 DEF NoneIn
  <2>3. QED
    BY <1>2, <2>1, <2>2 DEF NoneIn
<1>6. QED
  BY <1>1, <1>3, <1>5

\* The errors of several lists, one after the other.
LEMMA ErrorLists ==
  ASSUME NEW D, NEW a \in Seq(D), NEW b \in Seq(D), NEW c \in Seq(D), NEW d \in Seq(D),
         NEW e \in Seq(D)
  PROVE  /\ a \o b \o c \o d \o e \in Seq(D)
         /\ NoneIn(a \o b \o c \o d \o e) =>
              NoneIn(a) /\ NoneIn(b) /\ NoneIn(c) /\ NoneIn(d) /\ NoneIn(e)
<1>1. PICK s \in Seq(D) : s = a \o b /\ (NoneIn(s) => NoneIn(a) /\ NoneIn(b))
  BY NoneInBoth
<1>2. PICK t \in Seq(D) : t = s \o c /\ (NoneIn(t) => NoneIn(s) /\ NoneIn(c))
  BY NoneInBoth
<1>3. PICK u \in Seq(D) : u = t \o d /\ (NoneIn(u) => NoneIn(t) /\ NoneIn(d))
  BY NoneInBoth
<1>4. u \o e \in Seq(D) /\ (NoneIn(u \o e) => NoneIn(u) /\ NoneIn(e))
  BY NoneInBoth
<1>5. QED
  BY <1>1, <1>2, <1>3, <1>4

Raised == Exceptions \cup {"none"}

\* Checks that end at the first that fails.
LEMMA FirstRaised ==
  ASSUME NEW s \in Seq(Raised)
  PROVE  First(s) \in Raised /\ (First(s) = "none" => NoneIn(s))
<1>1. PICK r \in Seq(Raised) : r = Filter(s, Exceptions) /\ Range(r) = Range(s) \cap Exceptions
  BY FilterKeeps
<1>2. First(s) = IF r = <<>> THEN "none" ELSE Head(r)
  BY <1>1 DEF First
<1>3. CASE r = <<>>
  <2>1. NoneIn(s)
    BY <1>1, <1>3, NoErrors DEF NoneIn, Raised
  <2>2. QED
    BY <1>2, <1>3, <2>1 DEF Raised
<1>4. CASE r # <<>>
  <2>1. Head(r) = r[1] /\ 1 \in DOMAIN r
    BY <1>4
  <2>2. Head(r) \in Exceptions
    BY <1>1, <2>1 DEF Range
  <2>3. "none" \notin Exceptions
    BY DEF Exceptions
  <2>4. QED
    BY <1>2, <1>4, <2>2, <2>3 DEF Raised
<1>5. QED
  BY <1>3, <1>4

\* The checks of an argument.
LEMMA ChecksRaise ==
  /\ \A args, names : Unknown(args, names) \in Raised
  /\ \A least, value : AtLeast(least, value) \in Raised
  /\ \A value : Length(value) \in Raised
  /\ \A args : SourceDict(args) \in Raised
  /\ \A kind, kinds : Registered(kind, kinds) \in Raised
BY DEF Unknown, AtLeast, Length, SourceDict, Registered, Raised, Exceptions

\* The checks of one constructor, as many as there are.
LEMMA TwoChecks ==
  ASSUME NEW a \in Raised, NEW b \in Raised
  PROVE  First(<<a, b>>) \in Raised
<1>1. <<a, b>> \in Seq(Raised)
  OBVIOUS
<1>2. QED
  BY <1>1, FirstRaised

LEMMA ThreeChecks ==
  ASSUME NEW a \in Raised, NEW b \in Raised, NEW c \in Raised
  PROVE  /\ First(<<a, b, c>>) \in Raised
         /\ First(<<a, b, c>>) = "none" => b = "none" /\ c = "none"
<1>1. <<a, b, c>> \in Seq(Raised)
  OBVIOUS
<1>2. NoneIn(<<a, b, c>>) => b = "none" /\ c = "none"
  BY DEF NoneIn
<1>3. QED
  BY <1>1, <1>2, FirstRaised

LEMMA SixChecks ==
  ASSUME NEW a \in Raised, NEW b \in Raised, NEW c \in Raised, NEW d \in Raised,
         NEW e \in Raised, NEW f \in Raised
  PROVE  /\ First(<<a, b, c, d, e, f>>) \in Raised
         /\ First(<<a, b, c, d, e, f>>) = "none" => b = "none" /\ c = "none" /\ d = "none"
<1>1. <<a, b, c, d, e, f>> \in Seq(Raised)
  OBVIOUS
<1>2. NoneIn(<<a, b, c, d, e, f>>) => b = "none" /\ c = "none" /\ d = "none"
  BY DEF NoneIn
<1>3. QED
  BY <1>1, <1>2, FirstRaised

LEMMA RateLimitWithin ==
  ASSUME NEW args, DeclaredTypes(args)
  PROVE  /\ RateLimitError(args) \in Raised
         /\ RateLimitError(args) = "none" =>
              /\ Given(args["capacity"], 1000) \in Nat \ {0}
              /\ Positive(Given(args["refill_per_sec"], 1000))
<1> DEFINE capacity == AtLeast(1, Given(args["capacity"], 1000))
           refill == AtLeast(1, Given(args["refill_per_sec"], 1000))
<1>1. /\ RateLimitError(args) \in Raised
      /\ RateLimitError(args) = "none" => capacity = "none" /\ refill = "none"
  BY ChecksRaise, ThreeChecks DEF RateLimitError
<1>2. /\ args["capacity"] \in Int \cup {Unset}
      /\ args["refill_per_sec"] \in Int \cup {Fraction, Unset}
  BY DEF DeclaredTypes, Counts, Amounts
<1>3. capacity = "none" => Given(args["capacity"], 1000) \in Nat \ {0}
  BY <1>2, FilesAssumption DEF Given, AtLeast
<1>4. refill = "none" => Positive(Given(args["refill_per_sec"], 1000))
  BY <1>2, FilesAssumption DEF Given, AtLeast, Positive
<1>5. QED
  BY <1>1, <1>3, <1>4

LEMMA ZScoreWithin ==
  ASSUME NEW args, DeclaredTypes(args)
  PROVE  /\ ZScoreError(args) \in Raised
         /\ ZScoreError(args) = "none" =>
              /\ Given(args["window_size"], 100) \in Nat \ {0, 1}
              /\ Given(args["min_samples"], 30) \in Nat \ {0, 1}
              /\ Positive(Given(args["threshold"], 3))
<1> DEFINE window == AtLeast(2, Given(args["window_size"], 100))
           threshold == AtLeast(1, Given(args["threshold"], 3))
           samples == AtLeast(2, Given(args["min_samples"], 30))
<1>1. /\ ZScoreError(args) \in Raised
      /\ ZScoreError(args) = "none" => window = "none" /\ threshold = "none" /\ samples = "none"
  BY ChecksRaise, SixChecks DEF ZScoreError
<1>2. /\ args["window_size"] \in Int \cup {Unset} /\ args["min_samples"] \in Int \cup {Unset}
      /\ args["threshold"] \in Int \cup {Fraction, Unset}
  BY DEF DeclaredTypes, Counts, Amounts
<1>3. window = "none" => Given(args["window_size"], 100) \in Nat \ {0, 1}
  BY <1>2, FilesAssumption DEF Given, AtLeast
<1>4. samples = "none" => Given(args["min_samples"], 30) \in Nat \ {0, 1}
  BY <1>2, FilesAssumption DEF Given, AtLeast
<1>5. threshold = "none" => Positive(Given(args["threshold"], 3))
  BY <1>2, FilesAssumption DEF Given, AtLeast, Positive
<1>6. QED
  BY <1>1, <1>3, <1>4, <1>5

LEMMA IqrWithin ==
  ASSUME NEW args, DeclaredTypes(args)
  PROVE  /\ IqrError(args) \in Raised
         /\ IqrError(args) = "none" =>
              /\ Given(args["window_size"], 100) \in Nat \ {0, 1}
              /\ Given(args["min_samples"], 30) \in Nat \ 0..3
              /\ Positive(Given(args["k"], Fraction))
<1> DEFINE window == AtLeast(2, Given(args["window_size"], 100))
           fence == AtLeast(1, Given(args["k"], Fraction))
           samples == AtLeast(4, Given(args["min_samples"], 30))
<1>1. /\ IqrError(args) \in Raised
      /\ IqrError(args) = "none" => window = "none" /\ fence = "none" /\ samples = "none"
  BY ChecksRaise, SixChecks DEF IqrError
<1>2. /\ args["window_size"] \in Int \cup {Unset} /\ args["min_samples"] \in Int \cup {Unset}
      /\ args["k"] \in Int \cup {Fraction, Unset}
  BY DEF DeclaredTypes, Counts, Amounts
<1>3. window = "none" => Given(args["window_size"], 100) \in Nat \ {0, 1}
  BY <1>2, FilesAssumption DEF Given, AtLeast
<1>4. samples = "none" => Given(args["min_samples"], 30) \in Nat \ 0..3
  BY <1>2, FilesAssumption DEF Given, AtLeast
<1>5. fence = "none" => Positive(Given(args["k"], Fraction))
  BY <1>2, FilesAssumption DEF Given, AtLeast, Positive
<1>6. QED
  BY <1>1, <1>3, <1>4, <1>5

LEMMA CusumWithin ==
  ASSUME NEW args, DeclaredTypes(args)
  PROVE  /\ CusumError(args) \in Raised
         /\ CusumError(args) = "none" =>
              /\ Given(args["warmup_samples"], 30) \in Nat \ {0, 1}
              /\ Positive(Given(args["threshold"], 5))
              /\ Given(args["slack"], Fraction) \in Nat \cup {Fraction}
<1> DEFINE threshold == AtLeast(1, Given(args["threshold"], 5))
           slack == AtLeast(0, Given(args["slack"], Fraction))
           warmup == AtLeast(2, Given(args["warmup_samples"], 30))
<1>1. /\ CusumError(args) \in Raised
      /\ CusumError(args) = "none" => threshold = "none" /\ slack = "none" /\ warmup = "none"
  BY ChecksRaise, SixChecks DEF CusumError
<1>2. /\ args["warmup_samples"] \in Int \cup {Unset}
      /\ args["threshold"] \in Int \cup {Fraction, Unset}
      /\ args["slack"] \in Int \cup {Fraction, Unset}
  BY DEF DeclaredTypes, Counts, Amounts
<1>3. warmup = "none" => Given(args["warmup_samples"], 30) \in Nat \ {0, 1}
  BY <1>2, FilesAssumption DEF Given, AtLeast
<1>4. threshold = "none" => Positive(Given(args["threshold"], 5))
  BY <1>2, FilesAssumption DEF Given, AtLeast, Positive
<1>5. slack = "none" => Given(args["slack"], Fraction) \in Nat \cup {Fraction}
  BY <1>2, FilesAssumption DEF Given, AtLeast
<1>6. QED
  BY <1>1, <1>3, <1>4, <1>5

\* The other two constructors: what they raise.
LEMMA ShapesRaise ==
  ASSUME NEW args
  PROVE  SchemaError(args) \in Raised /\ SizeError(args) \in Raised
<1>1. (IF args["allowed_severities"] \in Numbers THEN "TypeError" ELSE "none") \in Raised
  BY DEF Raised, Exceptions
<1>2. SchemaError(args) \in Raised
  BY <1>1, ChecksRaise, TwoChecks DEF SchemaError
<1>3. SizeError(args) \in Raised
  BY ChecksRaise, TwoChecks DEF SizeError
<1>4. QED
  BY <1>2, <1>3

LEMMA BuiltIsWithin ==
  ASSUME Checked, phase = "built", Sane(config)
  PROVE  WithinAssumptions(config)
<1> DEFINE front == <<RepositoryError(config), FileError(config), ParserError(config)>>
           middle == <<TemplateError(config), SessionizerError(config)>>
           all == front \o ValidatorErrors(config) \o middle
                    \o DetectorErrors(config) \o SequenceErrors(config)
<1>1. config \in Configs /\ Filter(all, Exceptions) = <<>>
  BY DEF Checked, BuildErrors
<1>2. front \in Seq(Raised) /\ middle \in Seq(Raised)
  BY DEF RepositoryError, FileError, ParserError, TemplateError, SessionizerError, Registered,
         Raised, Exceptions
<1>3. PICK v \in Seq(Parts), w \in Seq(Parts) : v = config.validation /\ w = config.detectors
  BY <1>1 DEF Configs
<1>4. /\ \A i \in 1..Len(v) : DeclaredTypes(v[i].args)
      /\ \A i \in 1..Len(w) : DeclaredTypes(w[i].args)
  BY <1>3 DEF Sane
<1>5. ValidatorErrors(config) \in Seq(Raised)
  <2>1. ValidatorErrors(config) = [i \in 1..Len(v) |-> ValidatorError(v[i])]
    BY <1>3 DEF ValidatorErrors
  <2>2. \A i \in 1..Len(v) : ValidatorError(v[i]) \in Raised
    BY <1>4, RateLimitWithin, ShapesRaise DEF ValidatorError
  <2>3. QED
    BY <2>1, <2>2
<1>6. DetectorErrors(config) \in Seq(Raised)
  <2>1. DetectorErrors(config) = [i \in 1..Len(w) |-> DetectorError(w[i])]
    BY <1>3 DEF DetectorErrors
  <2>2. \A i \in 1..Len(w) : DetectorError(w[i]) \in Raised
    BY <1>4, ZScoreWithin, IqrWithin, CusumWithin, ChecksRaise DEF DetectorError
  <2>3. QED
    BY <2>1, <2>2
<1>7. SequenceErrors(config) \in Seq(Raised)
  <2>1. CASE config.sequence = Unset
    BY <2>1 DEF SequenceErrors
  <2>2. CASE config.sequence # Unset
    <3>1. PICK x \in Raised, y \in Raised, z \in Raised : SequenceErrors(config) = <<x, y, z>>
      BY <2>2, ChecksRaise DEF SequenceErrors, Raised, Exceptions
    <3>2. QED
      BY <3>1
  <2>3. QED
    BY <2>1, <2>2
<1>8. /\ NoneIn(ValidatorErrors(config)) /\ NoneIn(middle)
      /\ NoneIn(DetectorErrors(config)) /\ NoneIn(SequenceErrors(config))
  <2>1. PICK a \in Seq(Raised), b \in Seq(Raised), c \in Seq(Raised), d \in Seq(Raised),
             e \in Seq(Raised) :
          /\ a = front /\ b = ValidatorErrors(config) /\ c = middle
          /\ d = DetectorErrors(config) /\ e = SequenceErrors(config)
    BY <1>2, <1>5, <1>6, <1>7
  <2> HIDE DEF front, middle
  <2>2. all = a \o b \o c \o d \o e
    BY <2>1
  <2>3. all \in Seq(Raised)
    BY <2>2, ErrorLists
  <2>4. NoneIn(all)
    BY <1>1, <2>3, NoErrors DEF Raised, NoneIn
  <2>5. QED
    BY <2>1, <2>2, <2>4, ErrorLists
<1>9. config.sessionizer.enabled => \A limit \in config.sessionizer.limits : Positive(limit)
  <2>1. SessionizerError(config) = "none"
    <3>1. middle[2] = "none"
      BY <1>8 DEF NoneIn
    <3>2. QED
      BY <3>1
  <2>2. config.sessionizer.limits \subseteq Int \cup {Fraction}
    BY <1>1 DEF Configs, Numbers, Sane
  <2>3. QED
    BY <2>1, <2>2 DEF SessionizerError, Positive
<1>10. ASSUME NEW i \in DOMAIN config.validation PROVE ValidatorWithin(config.validation[i])
  <2>1. ValidatorError(config.validation[i]) = "none"
    BY <1>8 DEF ValidatorErrors, NoneIn
  <2>2. DeclaredTypes(config.validation[i].args)
    BY DEF Sane
  <2>3. QED
    BY <2>1, <2>2, RateLimitWithin DEF ValidatorError, ValidatorWithin
<1>11. ASSUME NEW i \in DOMAIN config.detectors PROVE DetectorWithin(config.detectors[i])
  <2>1. DetectorError(config.detectors[i]) = "none"
    BY <1>8 DEF DetectorErrors, NoneIn
  <2>2. DeclaredTypes(config.detectors[i].args)
    BY DEF Sane
  <2>3. config.detectors[i].kind \in NumericKinds
    BY <2>1 DEF DetectorError, Registered, NumericKinds
  <2>4. QED
    BY <2>1, <2>2, <2>3, ZScoreWithin, IqrWithin, CusumWithin DEF DetectorError, DetectorWithin
<1>12. config.sequence # Unset => config.sequence.threshold \in Nat \cup {Fraction}
  <2> SUFFICES ASSUME config.sequence # Unset
               PROVE config.sequence.threshold \in Nat \cup {Fraction}
    OBVIOUS
  <2>1. config.sequence.threshold \in Int \cup {Fraction}
    BY <1>1 DEF Configs, Numbers, Sane
  <2>2. AtLeast(0, config.sequence.threshold) = "none"
    BY <1>8 DEF SequenceErrors, NoneIn
  <2>3. QED
    BY <2>1, <2>2, FilesAssumption DEF AtLeast
<1>13. config.runtime.queue_size \in Int /\ config.runtime.batch_size \in Int
  BY <1>1 DEF Configs
<1>14. QED
  BY <1>9, <1>10, <1>11, <1>12, <1>13 DEF Checked, WithinAssumptions

\* Whatever the file and the flags: if what the file gives for numbers are numbers of
\* the declared types, a pipeline that is built has what the models of its parts
\* assume of their parameters (builder.build_pipeline and the constructors), but for
\* --workers, which nothing checks (cli._run).
THEOREM BuildsWithinAssumptionsAlways == ConfigSpec => []BuildsWithinAssumptions
<1>1. ConfigInit => Checked
  BY FilesAssumption DEF ConfigInit, Checked
<1>2. Checked => BuildsWithinAssumptions
  BY BuiltIsWithin DEF BuildsWithinAssumptions
<1>3. QED
  BY <1>1, <1>2, CheckedStep, PTL DEF ConfigSpec

-------------------------------------------------------------------------------
(* The scripts. *)

EvaluationSpec == EvaluationInit /\ [][EvaluationNext]_evaluationVars

BglLine == [time : Nat, alert : BOOLEAN]

\* The generator's file: a sequence of lines, of BGL's only in that format.
LogWritten ==
  /\ format \in {"hdfs", "bgl"}
  /\ log \in Seq(Range(log))
  /\ format = "bgl" =>
       /\ \A b \in Blocks : sequences[b] = <<>> /\ cursors[b] = 0
       /\ log \in Seq(BglLine)

Flagged(cap) == {b \in Universe(cap) : Detector!Fires(EventsOf(b, cap))}

HdfsReport(cap) ==
  Report(cap, 0, <<>>, Flagged(cap), ActualAnomalies(cap), Universe(cap))

BglReport(cap, width, predicted) ==
  Report(cap, width, Rates(cap, width), predicted, AlertWindows(cap, width),
         DOMAIN Rates(cap, width))

\* Each file says what a script would make of the others now.
FilesCurrent ==
  /\ labels # None =>
       ~writing /\ format = "hdfs" /\ labels \in [Blocks -> {"Normal", "Anomaly", "none"}]
  /\ model # None => labels # None /\ model.cap \in LineCaps /\ model.normal = Learned(model.cap)
  /\ report # None =>
       /\ ~writing
       /\ \E cap \in LineCaps :
            \/ format = "hdfs" /\ model # None /\ report = HdfsReport(cap)
            \/ /\ format = "bgl"
               /\ \E width \in WindowWidths : \E predicted \in SUBSET DOMAIN Rates(cap, width) :
                    report = BglReport(cap, width, predicted)

LEMMA AppendRange ==
  ASSUME NEW s, s \in Seq(Range(s)), NEW e
  PROVE  Append(s, e) \in Seq(Range(Append(s, e)))
<1>1. PICK R, D : R = Range(s) /\ D = R \cup {e}
  OBVIOUS
<1>2. s \in Seq(D)
  <2>1. s \in Seq(R)
    BY <1>1
  <2>2. QED
    BY <1>1, <2>1, SeqMonotonic
<1> PICK t \in Seq(D) : t = Append(s, e)
  BY <1>1, <1>2, AppendProperties
<1>3. t \in Seq(Range(t))
  BY SeqOfRange DEF Range
<1>4. QED
  BY <1>3

LEMMA LogWrittenStep == LogWritten /\ [EvaluationNext]_evaluationVars => LogWritten'
<1> SUFFICES ASSUME LogWritten, [EvaluationNext]_evaluationVars PROVE LogWritten'
  OBVIOUS
<1>1. ASSUME NEW b \in Blocks, WriteHdfsLine(b) PROVE LogWritten'
  <2>1. /\ cursors[b] < Len(sequences[b]) /\ UNCHANGED format
        /\ log' = Append(log, HdfsLine(b, sequences[b][cursors'[b]]))
    BY <1>1 DEF WriteHdfsLine
  <2>2. format = "hdfs"
    <3>1. Len(<<>>) = 0
      OBVIOUS
    <3>2. QED
      BY <2>1, <3>1 DEF LogWritten
  <2>3. log' \in Seq(Range(log'))
    BY <2>1, AppendRange DEF LogWritten
  <2>4. QED
    BY <2>1, <2>2, <2>3 DEF LogWritten
<1>2. CASE WriteBglLine
  <2>1. PICK t \in Times, alert \in BOOLEAN : log' = Append(log, [time |-> t, alert |-> alert])
    BY <1>2 DEF WriteBglLine
  <2>2. format = "bgl" /\ UNCHANGED <<format, sequences, cursors>>
    BY <1>2 DEF WriteBglLine
  <2>3. [time |-> t, alert |-> alert] \in BglLine
    BY LogsAssumption DEF BglLine
  <2>4. log' \in Seq(Range(log')) /\ log' \in Seq(BglLine)
    BY <2>1, <2>2, <2>3, AppendRange DEF LogWritten
  <2>5. QED
    BY <2>2, <2>4 DEF LogWritten
<1>3. CASE UNCHANGED <<format, sequences, cursors, log>>
  BY <1>3 DEF LogWritten
<1>4. QED
  BY <1>1, <1>2, <1>3
     DEF EvaluationNext, LogsNext, EndWriting, LabelBlocks, Train, EvaluateHdfs, EvaluateBgl,
         evaluationVars, logVars

\* What depends on the log alone, and on the log and the labels.
LEMMA LogDecides ==
  ASSUME UNCHANGED log
  PROVE  /\ \A b, cap : EventsOf(b, cap)' = EventsOf(b, cap)
         /\ \A cap, width : /\ Rates(cap, width)' = Rates(cap, width)
                            /\ AlertWindows(cap, width)' = AlertWindows(cap, width)
BY DEF EventsOf, FirstLines, Rates, AlertWindows, LinesIn

LEMMA LabelsDecide ==
  ASSUME UNCHANGED <<log, labels>>
  PROVE  /\ \A cap : Learned(cap)' = Learned(cap)
         /\ \A cap : Universe(cap)' = Universe(cap)
         /\ \A cap : ActualAnomalies(cap)' = ActualAnomalies(cap)
<1>1. /\ \A label : Labelled(label)' = Labelled(label)
      /\ \A b, cap : NgramsOf(b, cap)' = NgramsOf(b, cap)
  <2>1. \A label : Labelled(label)' = Labelled(label)
    BY DEF Labelled
  <2>2. ASSUME NEW b, NEW cap PROVE NgramsOf(b, cap)' = NgramsOf(b, cap)
    <3>1. PICK t : t = EventsOf(b, cap) /\ t = EventsOf(b, cap)'
      BY LogDecides
    <3>2. Detector!Ngrams(t)' = Detector!Ngrams(t)
      BY DEF Detector!Ngrams
    <3>3. QED
      BY <3>1, <3>2 DEF NgramsOf
  <2>3. QED
    BY <2>1, <2>2
<1>2. \A cap : Universe(cap)' = Universe(cap)
  BY <1>1, LogDecides DEF Universe, Observed
<1>3. QED
  BY <1>1, <1>2 DEF Learned, ActualAnomalies

LEMMA ReportsStay ==
  ASSUME UNCHANGED <<log, labels, model>>
  PROVE  \A cap : HdfsReport(cap)' = HdfsReport(cap)
<1>1. \A b, cap : Detector!Fires(EventsOf(b, cap))' <=> Detector!Fires(EventsOf(b, cap))
  <2> SUFFICES ASSUME NEW b, NEW cap
               PROVE  Detector!Fires(EventsOf(b, cap))' <=> Detector!Fires(EventsOf(b, cap))
    OBVIOUS
  <2>1. PICK t : t = EventsOf(b, cap) /\ t = EventsOf(b, cap)'
    BY LogDecides
  <2>2. Detector!Ngrams(t)' = Detector!Ngrams(t) /\ Detector!Novel(t)' = Detector!Novel(t)
    BY DEF Detector!Ngrams, Detector!Novel
  <2>3. Detector!Fires(t)' <=> Detector!Fires(t)
    BY <2>2 DEF Detector!Fires
  <2>4. QED
    BY <2>1, <2>3
<1>2. \A cap : Flagged(cap)' = Flagged(cap)
  BY <1>1, LabelsDecide DEF Flagged
<1>3. QED
  BY <1>2, LabelsDecide DEF HdfsReport

LEMMA BglReportsStay ==
  ASSUME UNCHANGED log
  PROVE  \A cap, width, predicted : BglReport(cap, width, predicted)' = BglReport(cap, width, predicted)
BY LogDecides DEF BglReport

LEMMA FilesCurrentStep == FilesCurrent /\ [EvaluationNext]_evaluationVars => FilesCurrent'
<1> SUFFICES ASSUME FilesCurrent, [EvaluationNext]_evaluationVars PROVE FilesCurrent'
  OBVIOUS
<1>1. CASE LogsNext /\ UNCHANGED <<labels, model, report>>
  <2>1. writing
    BY <1>1 DEF LogsNext, WriteHdfsLine, WriteBglLine, EndWriting
  <2>2. labels = None /\ model = None /\ report = None
    BY <2>1 DEF FilesCurrent
  <2>3. QED
    BY <1>1, <2>2 DEF FilesCurrent
<1>2. CASE LabelBlocks
  <2>1. /\ ~writing /\ format = "hdfs" /\ labels = None
        /\ labels' \in [Blocks -> {"Normal", "Anomaly", "none"}]
        /\ UNCHANGED <<writing, format, model, report>>
    BY <1>2 DEF LabelBlocks, logVars
  <2>2. model = None /\ report = None
    BY <2>1 DEF FilesCurrent
  <2>3. QED
    BY <2>1, <2>2 DEF FilesCurrent
<1>3. ASSUME NEW cap \in LineCaps, Train(cap) PROVE FilesCurrent'
  <2>1. /\ ~writing /\ labels # None /\ model = None
        /\ model' = [normal |-> Learned(cap), cap |-> cap]
        /\ UNCHANGED <<log, writing, format, labels, report>>
    BY <1>3 DEF Train, logVars
  <2>2. report # None => format = "bgl"
    BY <2>1 DEF FilesCurrent
  <2>3. format = "hdfs"
    BY <2>1 DEF FilesCurrent
  <2>4. report = None
    BY <2>2, <2>3
  <2>5. Learned(cap)' = Learned(cap)
    BY <2>1, LabelsDecide
  <2>6. QED
    BY <2>1, <2>3, <2>4, <2>5 DEF FilesCurrent
<1>4. ASSUME NEW cap \in LineCaps, EvaluateHdfs(cap) PROVE FilesCurrent'
  <2>1. /\ ~writing /\ model # None /\ report' = HdfsReport(cap)
        /\ UNCHANGED <<log, writing, format, labels, model>>
    BY <1>4 DEF EvaluateHdfs, HdfsReport, Flagged, logVars
  <2>2. format = "hdfs"
    BY <2>1 DEF FilesCurrent
  <2>3. HdfsReport(cap)' = HdfsReport(cap) /\ \A c : Learned(c)' = Learned(c)
    BY <2>1, ReportsStay, LabelsDecide
  <2>4. report' = HdfsReport(cap)'
    BY <2>1, <2>3
  <2>5. QED
    BY <2>1, <2>2, <2>3, <2>4 DEF FilesCurrent
<1>5. ASSUME NEW cap \in LineCaps, NEW width \in WindowWidths, EvaluateBgl(cap, width)
      PROVE  FilesCurrent'
  <2>1. /\ ~writing /\ format = "bgl" /\ UNCHANGED <<log, writing, format, labels, model>>
    BY <1>5 DEF EvaluateBgl, logVars
  <2>2. PICK predicted \in SUBSET DOMAIN Rates(cap, width) :
          report' = BglReport(cap, width, predicted)
    BY <1>5 DEF EvaluateBgl, BglReport
  <2>3. /\ Rates(cap, width)' = Rates(cap, width)
        /\ BglReport(cap, width, predicted)' = BglReport(cap, width, predicted)
        /\ labels = None /\ model = None
    BY <2>1, LogDecides, BglReportsStay DEF FilesCurrent
  <2>4. report' = BglReport(cap, width, predicted)'
    BY <2>2, <2>3
  <2>5. predicted \in SUBSET DOMAIN (Rates(cap, width)')
    BY <2>2, <2>3
  <2>6. QED
    BY <2>1, <2>3, <2>4, <2>5 DEF FilesCurrent
<1>6. CASE UNCHANGED evaluationVars
  <2>1. UNCHANGED <<log, writing, format, labels, model, report>>
    BY <1>6 DEF evaluationVars, logVars
  <2>2. /\ \A cap : Learned(cap)' = Learned(cap) /\ HdfsReport(cap)' = HdfsReport(cap)
        /\ \A cap, width : Rates(cap, width)' = Rates(cap, width)
        /\ \A cap, width, predicted :
             BglReport(cap, width, predicted)' = BglReport(cap, width, predicted)
    BY <2>1, ReportsStay, LabelsDecide, BglReportsStay, LogDecides
  <2>3. QED
    BY <2>1, <2>2 DEF FilesCurrent
<1>7. QED
  BY <1>1, <1>2, <1>3, <1>4, <1>5, <1>6 DEF EvaluationNext

LEMMA FilesAlways == EvaluationSpec => [](LogWritten /\ FilesCurrent)
<1>1. EvaluationInit => LogWritten /\ FilesCurrent
  <2> SUFFICES ASSUME EvaluationInit PROVE LogWritten /\ FilesCurrent
    OBVIOUS
  <2>1. format = "bgl" => \A b \in Blocks : sequences[b] = <<>> /\ cursors[b] = 0
    BY DEF EvaluationInit, LogsInit
  <2>2. format \in {"hdfs", "bgl"} /\ log = <<>>
    BY DEF EvaluationInit, LogsInit
  <2>3. log \in Seq(Range(log)) /\ log \in Seq(BglLine)
    BY <2>2
  <2>4. QED
    BY <2>1, <2>2, <2>3 DEF EvaluationInit, LogWritten, FilesCurrent
<1>2. QED
  BY <1>1, LogWrittenStep, FilesCurrentStep, PTL DEF EvaluationSpec

-------------------------------------------------------------------------------
(* No false positive. *)

LEMMA FirstLinesFacts ==
  ASSUME LogWritten, NEW cap \in Nat
  PROVE  /\ FirstLines(cap) \in Seq(Range(log))
         /\ Len(FirstLines(cap)) <= cap /\ Len(FirstLines(cap)) <= Len(log)
         /\ Len(FirstLines(cap)) = cap \/ Len(FirstLines(cap)) = Len(log)
         /\ \A i \in 1..Len(FirstLines(cap)) : FirstLines(cap)[i] = log[i]
<1>1. PICK R : R = Range(log)
  OBVIOUS
<1>0. PICK s \in Seq(R) : s = log
  BY <1>1 DEF LogWritten
<1>2. PICK n \in Nat : n = IF cap < Len(s) THEN cap ELSE Len(s)
  OBVIOUS
<1>3. FirstLines(cap) = SubSeq(s, 1, n)
  BY <1>0,  <1>2 DEF FirstLines
<1>4. n <= Len(s) /\ n <= cap /\ (n = cap \/ n = Len(s))
  BY <1>2
<1>5. /\ SubSeq(s, 1, n) \in Seq(R) /\ Len(SubSeq(s, 1, n)) = n
      /\ \A i \in 1..n : SubSeq(s, 1, n)[i] = s[i]
  BY <1>4
<1>6. QED
  BY <1>0, <1>1, <1>3, <1>4, <1>5

\* The events of a block in fewer lines are a piece of those in more.
LEMMA EventsGrow ==
  ASSUME LogWritten, NEW few \in Nat, NEW many \in Nat, few <= many, NEW b
  PROVE  /\ Len(EventsOf(b, few)) \in Nat /\ Len(EventsOf(b, many)) \in Nat
         /\ \E d : PieceAt(EventsOf(b, few), Len(EventsOf(b, few)),
                           EventsOf(b, many), Len(EventsOf(b, many)), d)
<1>1. PICK R, T : R = Range(log) /\ T = {l \in Range(log) : l.block = b}
  OBVIOUS
<1>2. PICK s \in Seq(R), t \in Seq(R) : s = FirstLines(many) /\ t = FirstLines(few)
  BY <1>1, FirstLinesFacts
<1>3. PieceAt(t, Len(t), s, Len(s), 0)
  <2>1. Len(t) <= Len(s)
    BY <1>2, FirstLinesFacts
  <2>2. ASSUME NEW i \in 1..Len(t) PROVE t[i] = s[0 + i]
    <3>1. i \in 1..Len(s) /\ 0 + i = i
      BY <2>1
    <3>2. t[i] = log[i]
      BY <1>2, FirstLinesFacts
    <3>3. s[i] = log[i]
      BY <1>2, <3>1, FirstLinesFacts
    <3>4. QED
      BY <3>1, <3>2, <3>3
  <2>3. QED
    BY <2>1, <2>2 DEF PieceAt
<1>4. PICK v \in Seq(R), w \in Seq(R) : v = Filter(s, T) /\ w = Filter(t, T)
  BY FilterKeeps
<1>5. PICK d : PieceAt(w, Len(w), v, Len(v), d)
  BY <1>3, <1>4, FilterOfPiece
<1> DEFINE E == {EventOf(l.kind) : l \in R}
           seen(lines) == [i \in DOMAIN lines |-> EventOf(lines[i].kind)]
<1>6. ASSUME NEW lines \in Seq(R)
      PROVE  /\ seen(lines) \in Seq(E) /\ Len(seen(lines)) = Len(lines)
             /\ \A i \in 1..Len(lines) : seen(lines)[i] = EventOf(lines[i].kind)
  <2>1. ASSUME NEW i \in 1..Len(lines) PROVE EventOf(lines[i].kind) \in E
    <3>1. lines[i] \in R
      OBVIOUS
    <3>2. QED
      BY <3>1, Zenon
  <2>2. seen(lines) = [i \in 1..Len(lines) |-> EventOf(lines[i].kind)]
    OBVIOUS
  <2> HIDE DEF E
  <2>3. QED
    BY <2>1, <2>2
<1>7. EventsOf(b, many) = Filter(seen(v), Templates) /\ EventsOf(b, few) = Filter(seen(w), Templates)
  <2>1. ASSUME NEW lines \in Seq(R)
        PROVE  Visible([i \in DOMAIN lines |-> lines[i].kind]) = Filter(seen(lines), Templates)
    BY DEF Visible
  <2>2. QED
    BY <1>1, <1>2, <1>4, <2>1 DEF EventsOf
<1> HIDE DEF seen, E
<1>8. PICK x \in Seq(E), y \in Seq(E) : x = seen(w) /\ y = seen(v)
  BY <1>6
<1>9. PieceAt(x, Len(x), y, Len(y), d)
  <2>1. d \in Nat /\ d + Len(w) <= Len(v) /\ \A i \in 1..Len(w) : w[i] = v[d + i]
    BY <1>5 DEF PieceAt
  <2>2. Len(x) = Len(w) /\ Len(y) = Len(v)
    BY <1>6, <1>8
  <2>3. ASSUME NEW i \in 1..Len(w) PROVE x[i] = y[d + i]
    <3>1. d + i \in 1..Len(v)
      BY <2>1
    <3>2. QED
      BY <1>6, <1>8, <2>1, <3>1
  <2>4. QED
    BY <2>1, <2>2, <2>3 DEF PieceAt
<1>10. PICK p, q : p = Filter(x, Templates) /\ q = Filter(y, Templates)
  OBVIOUS
<1>11. Len(p) \in Nat /\ Len(q) \in Nat
  <2>1. p \in Seq(E) /\ q \in Seq(E)
    BY <1>8, <1>10, FilterKeeps
  <2>2. QED
    BY <2>1
<1>12. PICK e : PieceAt(p, Len(p), q, Len(q), e)
  BY <1>8, <1>9, <1>10, FilterOfPiece
<1>13. p = EventsOf(b, few) /\ q = EventsOf(b, many)
  BY <1>7, <1>8, <1>10
<1>14. QED
  BY <1>11, <1>12, <1>13

\* The n-grams of a piece are n-grams of the whole.
LEMMA NgramsOfEvents ==
  ASSUME NEW t, NEW a, Len(t) \in Nat, Len(a) \in Nat, NEW d, PieceAt(t, Len(t), a, Len(a), d)
  PROVE  Detector!Ngrams(t) \subseteq Detector!Ngrams(a)
<1> SUFFICES ASSUME NEW g \in Detector!Ngrams(t) PROVE g \in Detector!Ngrams(a)
  OBVIOUS
<1>1. N \in Nat \ {0}
  BY EvaluationAssumption DEF Detector!Ngrams
<1>2. PICK m \in Nat, k \in Nat : m = Len(t) /\ k = Len(a)
  OBVIOUS
<1>3. d \in Nat /\ d + m <= k /\ \A j \in 1..m : t[j] = a[d + j]
  BY <1>2 DEF PieceAt
<1>4. PICK i \in 1..(m - N + 1) : g = [j \in 1..N |-> t[i + j - 1]]
  BY <1>1, <1>2 DEF Detector!Ngrams
<1>5. d + i \in 1..(k - N + 1)
  BY <1>1, <1>2, <1>3, <1>4
<1>6. ASSUME NEW j \in 1..N PROVE t[i + j - 1] = a[(d + i) + j - 1]
  <2>1. i + j - 1 \in 1..m /\ d + (i + j - 1) = (d + i) + j - 1
    BY <1>1, <1>2, <1>3, <1>4
  <2>2. QED
    BY <1>3, <2>1
<1>7. g = [j \in 1..N |-> a[(d + i) + j - 1]]
  BY <1>4, <1>6
<1>8. QED
  BY <1>1, <1>2, <1>5, <1>7 DEF Detector!Ngrams

LEMMA SameCount == \A T : Detector!Cardinality(T) = Cardinality(T)
BY DEF Detector!Cardinality, Cardinality, Detector!IsFiniteSet, IsFiniteSet

LEMMA GramsFinite ==
  ASSUME NEW t, Len(t) \in Nat
  PROVE  IsFiniteSet(Detector!Ngrams(t))
<1> DEFINE last == Len(t) - N + 1
           gram(i) == [j \in 1..N |-> t[i + j - 1]]
           T == {gram(i) : i \in 1..last}
<1>1. Detector!Ngrams(t) \in {{}, T}
  BY DEF Detector!Ngrams
<1>2. IsFiniteSet(1..last)
  BY EvaluationAssumption, FS_Interval
<1> HIDE DEF last, gram
<1>3. [i \in 1..last |-> gram(i)] \in Surjection(1..last, T)
  BY DEF Surjection
<1>4. IsFiniteSet(T)
  BY <1>2, <1>3, FS_Surjection
<1>5. QED
  BY <1>1, <1>4, FS_EmptySet

\* At threshold 0 the detector fires on what has an n-gram it has not seen, and on
\* nothing else.
LEMMA FiresOnNovel ==
  ASSUME NEW t, Len(t) \in Nat
  PROVE  Detector!Fires(t) <=> Detector!Novel(t) # {}
<1>1. PICK T, U : T = Detector!Ngrams(t) /\ U = Detector!Novel(t) /\ U \subseteq T
  BY DEF Detector!Novel
<1>2. IsFiniteSet(T) /\ IsFiniteSet(U)
  BY <1>1, GramsFinite, FS_Subset
<1>3. PICK x \in Nat, y \in Nat : x = Cardinality(U) /\ y = Cardinality(T)
  BY <1>2, FS_CardinalityType
<1>4. x = 0 <=> U = {}
  BY <1>2, <1>3, FS_EmptySet
<1>5. x * 1 > 0 * y <=> x # 0
  OBVIOUS
<1>6. Detector!Fires(t) <=> T # {} /\ x * 1 > 0 * y
  BY <1>1, <1>3, SameCount DEF Detector!Fires
<1>7. QED
  BY <1>1, <1>4, <1>5, <1>6

\* The trainer has seen what the evaluator sees of a normal block.
LEMMA NormalIsKnown ==
  ASSUME LogWritten, NEW few \in Nat, NEW many \in Nat, few <= many,
         NEW b \in Labelled("Normal"), model.normal = Learned(many)
  PROVE  ~Detector!Fires(EventsOf(b, few))
<1>1. PICK t, a, d : /\ t = EventsOf(b, few) /\ a = EventsOf(b, many)
                     /\ Len(t) \in Nat /\ Len(a) \in Nat /\ PieceAt(t, Len(t), a, Len(a), d)
  BY EventsGrow
<1>2. Detector!Ngrams(t) \subseteq Detector!Ngrams(a)
  BY <1>1, NgramsOfEvents
<1>3. Detector!Ngrams(a) \subseteq model.normal
  BY <1>1 DEF Learned, NgramsOf
<1>4. Detector!Novel(t) = {}
  BY <1>2, <1>3 DEF Detector!Novel
<1>5. QED
  BY <1>1, <1>4, FiresOnNovel

\* No false positive by construction: whatever the log and the labels, and whatever the
\* templates tell apart, a model trained with the labels on as much of the log as is
\* scored flags no block labelled Normal (train_sequence_model.py,
\* evaluate_hdfs_sequence.py).
THEOREM NormalNeverFlaggedAlways == EvaluationSpec => []NormalNeverFlagged
<1>1. ASSUME LogWritten, FilesCurrent PROVE NormalNeverFlagged
  <2> SUFFICES ASSUME Evaluated("hdfs"), report.cap <= model.cap
               PROVE  report.cm.fp = 0 /\ report.predicted \cap Labelled("Normal") = {}
    BY DEF NormalNeverFlagged
  <2>1. PICK cap \in LineCaps : model # None /\ report = HdfsReport(cap)
    BY <1>1 DEF FilesCurrent, Evaluated
  <2>2. /\ model.cap \in LineCaps /\ model.normal = Learned(model.cap)
        /\ labels \in [Blocks -> {"Normal", "Anomaly", "none"}]
    BY <1>1, <2>1 DEF FilesCurrent
  <2>3. /\ report.cap = cap /\ report.predicted = Flagged(cap)
        /\ report.cm.fp = Cardinality(Flagged(cap) \ ActualAnomalies(cap))
    BY <2>1 DEF HdfsReport, Report, Confusion
  <2>4. PICK many \in Nat : many = model.cap /\ cap \in Nat /\ cap <= many
    BY <2>2, <2>3, EvaluationAssumption
  <2>5. ASSUME NEW b \in Flagged(cap) PROVE b \notin Labelled("Normal")
    <3>1. Detector!Fires(EventsOf(b, cap))
      BY DEF Flagged
    <3>2. QED
      BY <1>1, <2>2, <2>4, <3>1, NormalIsKnown
  <2>6. ASSUME NEW b \in Flagged(cap) PROVE b \in ActualAnomalies(cap)
    <3>1. b \in Universe(cap) /\ b \in Blocks /\ labels[b] # "none"
      BY DEF Flagged, Universe, Observed, Labelled
    <3>2. labels[b] # "Normal"
      BY <2>5, <3>1 DEF Labelled
    <3>3. QED
      BY <2>2, <3>1, <3>2 DEF ActualAnomalies, Labelled
  <2>7. Flagged(cap) \ ActualAnomalies(cap) = {}
    BY <2>6
  <2>8. QED
    BY <2>3, <2>5, <2>7, FS_EmptySet
<1>2. QED
  BY <1>1, FilesAlways, PTL

-------------------------------------------------------------------------------
(* What is injected and what is caught. *)

Kinds == Range(Lifecycle) \cup ExceptionEvents

Generated == {Lifecycle} \cup Anomalous(Lifecycle)

LEMMA GeneratedTyped == \A s \in Generated : s \in Seq(Kinds)
<1>1. PICK L \in Seq(Kinds) : L = Lifecycle
  BY LogsAssumption, SeqMonotonic DEF Kinds
<1>2. ASSUME NEW k \in 2..(Len(L) - 1) PROVE SubSeq(L, 1, k) \in Seq(Kinds)
  OBVIOUS
<1>3. ASSUME NEW i \in 1..(Len(L) - 1) PROVE [L EXCEPT ![i] = L[i + 1], ![i + 1] = L[i]] \in Seq(Kinds)
  OBVIOUS
<1>4. ASSUME NEW i \in 1..(Len(L) - 1), NEW e \in ExceptionEvents PROVE InsertAt(L, i + 1, e) \in Seq(Kinds)
  <2>1. SubSeq(L, 1, (i + 1) - 1) \in Seq(Kinds) /\ SubSeq(L, i + 1, Len(L)) \in Seq(Kinds)
    OBVIOUS
  <2>2. <<e>> \in Seq(Kinds)
    BY DEF Kinds
  <2>3. QED
    BY <2>1, <2>2 DEF InsertAt
<1>5. QED
  BY <1>1, <1>2, <1>3, <1>4 DEF Generated, Anomalous, Truncated, Reordered, Injected

OfBlock(lines, b) == {l \in Range(lines) : l.block = b}

LEMMA LineAdds ==
  ASSUME NEW s, s \in Seq(Range(s)), NEW e, NEW b
  PROVE  Filter(Append(s, e), OfBlock(Append(s, e), b)) =
           IF e.block = b THEN Append(Filter(s, OfBlock(s, b)), e) ELSE Filter(s, OfBlock(s, b))
<1>1. PICK R, D : R = Range(s) /\ D = R \cup {e}
  OBVIOUS
<1>2. s \in Seq(R) /\ s \in Seq(D)
  BY <1>1, SeqMonotonic
<1>3. PICK t \in Seq(D) : t = Append(s, e)
  BY <1>1, <1>2, AppendProperties
<1>4. Range(t) = D
  <2>1. DOMAIN t = 1..(Len(s) + 1) /\ Len(s) \in Nat /\ DOMAIN s = 1..Len(s)
        /\ t[Len(s) + 1] = e /\ \A i \in 1..Len(s) : t[i] = s[i]
    BY <1>2, <1>3
  <2>2. \A i : i \in 1..(Len(s) + 1) <=> i \in 1..Len(s) \/ i = Len(s) + 1
    BY <2>1
  <2>3. QED
    BY <1>1, <2>1, <2>2 DEF Range
<1>5. Filter(t, OfBlock(t, b)) = IF e \in OfBlock(t, b) THEN Append(Filter(s, OfBlock(t, b)), e)
                                 ELSE Filter(s, OfBlock(t, b))
  <2>1. e \in D
    BY <1>1
  <2>2. QED
    BY <1>2, <1>3, <2>1, FilterAppend
<1>6. e \in OfBlock(t, b) <=> e.block = b
  BY <1>1, <1>4 DEF OfBlock
<1>7. Filter(s, OfBlock(t, b)) = Filter(s, OfBlock(s, b))
  <2>1. \A i \in 1..Len(s) : s[i] \in R
    BY <1>2
  <2>2. \A i \in 1..Len(s) : s[i] \in OfBlock(t, b) <=> s[i] \in OfBlock(s, b)
    BY <1>1, <1>4, <2>1 DEF OfBlock
  <2>3. QED
    BY <1>2, <2>2, FilterSame
<1>8. QED
  BY <1>3, <1>5, <1>6, <1>7

\* The lines of a block are the beginning of its sequence, as long as c.
Tells(lines, b, s, c) ==
  /\ c \in Nat /\ c <= Len(s)
  /\ Len(Filter(lines, OfBlock(lines, b))) = c
  /\ \A i \in 1..c : Filter(lines, OfBlock(lines, b))[i].kind = s[i]

LogTold ==
  format = "hdfs" =>
    /\ sequences \in [Blocks -> Generated]
    /\ cursors \in [Blocks -> Nat]
    /\ \A b \in Blocks : Tells(log, b, sequences[b], cursors[b])

LEMMA LogToldStep == LogWritten /\ LogTold /\ [EvaluationNext]_evaluationVars => LogTold'
<1> SUFFICES ASSUME LogWritten, LogTold, [EvaluationNext]_evaluationVars PROVE LogTold'
  OBVIOUS
<1>1. ASSUME NEW b \in Blocks, WriteHdfsLine(b) PROVE LogTold'
  <2> SUFFICES ASSUME format' = "hdfs" PROVE LogTold'
    BY DEF LogTold
  <2>1. format = "hdfs" /\ sequences' = sequences
    BY <1>1 DEF WriteHdfsLine
  <2>2. /\ sequences \in [Blocks -> Generated] /\ cursors \in [Blocks -> Nat]
        /\ \A a \in Blocks : Tells(log, a, sequences[a], cursors[a])
    BY <2>1 DEF LogTold
  <2>3. PICK c \in Nat : c = cursors[b] /\ c < Len(sequences[b])
    BY <1>1, <2>2 DEF WriteHdfsLine
  <2>4. cursors' \in [Blocks -> Nat] /\ cursors'[b] = c + 1 /\ \A a \in Blocks : a # b => cursors'[a] = cursors[a]
    BY <1>1, <2>2, <2>3 DEF WriteHdfsLine
  <2>5. PICK e : e = HdfsLine(b, sequences[b][c + 1]) /\ log' = Append(log, e)
    BY <1>1, <2>4 DEF WriteHdfsLine
  <2>6. e.block = b /\ e.kind = sequences[b][c + 1]
    BY <2>5 DEF HdfsLine
  <2>7. PICK s : s = sequences[b]
    OBVIOUS
  <2>8. Len(s) \in Nat
    BY <2>2, <2>7, GeneratedTyped
  <2>9. PICK R, own : R = Range(log) /\ own = Filter(log, OfBlock(log, b))
    OBVIOUS
  <2>10. own \in Seq(R) /\ Len(own) = c /\ \A i \in 1..c : own[i].kind = s[i]
    BY <2>2, <2>3, <2>7, <2>9, FilterKeeps DEF LogWritten, Tells
  <2>11. Filter(log', OfBlock(log', b)) = Append(own, e)
    BY <2>5, <2>6, <2>9, LineAdds DEF LogWritten
  <2>12. Len(Append(own, e)) = c + 1 /\ Append(own, e)[c + 1] = e /\ \A i \in 1..c : Append(own, e)[i] = own[i]
    BY <2>10
  <2>13. Tells(log', b, s, c + 1)
    <3>1. \A i \in 1..(c + 1) : i \in 1..c \/ i = c + 1
      OBVIOUS
    <3>2. c + 1 \in Nat /\ c + 1 <= Len(s)
      BY <2>3, <2>7, <2>8
    <3>3. QED
      BY <2>6, <2>7, <2>10, <2>11, <2>12, <3>1, <3>2 DEF Tells
  <2>14. ASSUME NEW a \in Blocks, a # b PROVE Tells(log', a, sequences[a], cursors[a])
    <3>1. Filter(log', OfBlock(log', a)) = Filter(log, OfBlock(log, a))
      BY <2>5, <2>6, <2>14, LineAdds DEF LogWritten
    <3>2. QED
      BY <2>2, <3>1 DEF Tells
  <2>15. \A a \in Blocks : Tells(log', a, sequences'[a], cursors'[a])
    BY <2>1, <2>4, <2>7, <2>13, <2>14
  <2>16. QED
    BY <2>1, <2>2, <2>4, <2>15 DEF LogTold
<1>2. CASE WriteBglLine
  <2>1. format' # "hdfs"
    BY <1>2 DEF WriteBglLine
  <2>2. QED
    BY <2>1 DEF LogTold
<1>3. CASE UNCHANGED <<format, sequences, cursors, log>>
  BY <1>3 DEF LogTold
<1>4. QED
  BY <1>1, <1>2, <1>3
     DEF EvaluationNext, LogsNext, EndWriting, LabelBlocks, Train, EvaluateHdfs, EvaluateBgl,
         evaluationVars, logVars

LEMMA LogToldAlways == EvaluationSpec => [](LogWritten /\ FilesCurrent /\ LogTold)
<1>1. EvaluationInit => LogTold
  <2> SUFFICES ASSUME EvaluationInit, format = "hdfs" PROVE LogTold
    BY DEF LogTold
  <2>1. sequences \in [Blocks -> Generated] /\ cursors = [b \in Blocks |-> 0] /\ log = <<>>
    BY DEF EvaluationInit, LogsInit, Generated
  <2>2. ASSUME NEW b \in Blocks PROVE Tells(log, b, sequences[b], cursors[b])
    <3>1. Len(sequences[b]) \in Nat /\ cursors[b] = 0
      BY <2>1, GeneratedTyped
    <3>2. Filter(log, OfBlock(log, b)) = <<>>
      BY <2>1, FilterEmpty
    <3>3. Len(<<>>) = 0
      OBVIOUS
    <3>4. QED
      BY <3>1, <3>2, <3>3 DEF Tells
  <2>3. QED
    BY <2>1, <2>2 DEF LogTold
<1>2. QED
  BY <1>1, FilesAlways, LogToldStep, PTL DEF EvaluationSpec

\* Of a log that is complete and read to its end, the scripts see the events of
\* each sequence.
LEMMA EventsAre ==
  ASSUME LogWritten, LogTold, format = "hdfs", NEW b \in Blocks,
         cursors[b] = Len(sequences[b]), NEW cap \in Nat, cap >= Len(log)
  PROVE  EventsOf(b, cap) = Visible(sequences[b])
<1>1. PICK R : R = Range(log) /\ log \in Seq(R)
  BY DEF LogWritten
<1>2. FirstLines(cap) = log
  <2>1. PICK t \in Seq(R) : t = FirstLines(cap)
    BY <1>1, FirstLinesFacts
  <2>2. Len(t) = Len(log)
    <3>1. Len(t) <= Len(log) /\ (Len(t) = cap \/ Len(t) = Len(log))
      BY <2>1, FirstLinesFacts
    <3>2. Len(t) \in Nat /\ Len(log) \in Nat
      BY <1>1
    <3>3. QED
      BY <3>1, <3>2
  <2>3. \A i \in 1..Len(t) : t[i] = log[i]
    BY <2>1, FirstLinesFacts
  <2>4. QED
    BY <1>1, <2>1, <2>2, <2>3
<1>3. PICK own \in Seq(R) : own = Filter(log, OfBlock(log, b))
  BY <1>1, FilterKeeps
<1>4. PICK s \in Seq(Kinds) : s = sequences[b]
  BY GeneratedTyped DEF LogTold
<1>5. Len(own) = Len(s) /\ \A i \in 1..Len(s) : own[i].kind = s[i]
  BY <1>3, <1>4 DEF LogTold, Tells
<1>6. [i \in DOMAIN own |-> own[i].kind] = s
  BY <1>5
<1>7. EventsOf(b, cap) = Visible([i \in DOMAIN own |-> own[i].kind])
  BY <1>2, <1>3 DEF EventsOf, OfBlock
<1>8. QED
  BY <1>4, <1>6, <1>7

LEMMA VisibleLength == \A s \in Generated : Len(Visible(s)) \in Nat
<1> SUFFICES ASSUME NEW s \in Generated PROVE Len(Visible(s)) \in Nat
  OBVIOUS
<1>1. PICK t \in Seq(Kinds) : t = s
  BY GeneratedTyped
<1> DEFINE E == {EventOf(k) : k \in Kinds}
           seen == [i \in DOMAIN t |-> EventOf(t[i])]
<1>2. seen \in Seq(E)
  <2>1. ASSUME NEW i \in 1..Len(t) PROVE EventOf(t[i]) \in E
    <3>1. t[i] \in Kinds
      OBVIOUS
    <3>2. QED
      BY <3>1, Zenon
  <2>2. seen = [i \in 1..Len(t) |-> EventOf(t[i])]
    OBVIOUS
  <2> HIDE DEF E
  <2>3. QED
    BY <2>1, <2>2
<1>3. Visible(s) = Filter(seen, Templates)
  BY <1>1 DEF Visible
<1> HIDE DEF seen, E
<1>4. Filter(seen, Templates) \in Seq(E)
  BY <1>2, FilterKeeps
<1>5. QED
  BY <1>3, <1>4

\* What a model that has learned the lifecycle is told apart by.
Novelties == {b \in Blocks : ~(Detector!Ngrams(Visible(sequences[b]))
                                 \subseteq Detector!Ngrams(Visible(Lifecycle)))}

CaughtByNgrams == WholeLogScored => report.predicted = Novelties

LEMMA PredictedNovelties ==
  ASSUME LogWritten, FilesCurrent, LogTold, WholeLogScored
  PROVE  report.predicted = Novelties
<1>1. format = "hdfs" /\ report # None /\ LabelledTruly
  BY DEF WholeLogScored, Evaluated
<1>2. PICK cap \in LineCaps : model # None /\ report = HdfsReport(cap)
  BY <1>1 DEF FilesCurrent
<1>3. report.cap = cap /\ report.predicted = Flagged(cap)
  BY <1>2 DEF HdfsReport, Report
<1>4. PICK many \in Nat : many = model.cap /\ many >= Len(log) /\ cap \in Nat /\ cap >= Len(log)
  BY <1>3, EvaluationAssumption DEF WholeLogScored
<1>5. \A b \in Blocks : /\ EventsOf(b, cap) = Visible(sequences[b])
                        /\ EventsOf(b, many) = Visible(sequences[b])
  BY <1>1, <1>4, EventsAre DEF WholeLogScored
<1>6. \A b \in Blocks : Len(Visible(sequences[b])) \in Nat
  BY <1>1, VisibleLength DEF LogTold
<1>7. \A b \in Labelled("Normal") : b \in Blocks /\ sequences[b] = Lifecycle
  <2>1. "Normal" # "Anomaly"
    OBVIOUS
  <2>2. QED
    BY <1>1, <2>1 DEF LabelledTruly, Labelled
<1>8. model.normal = Detector!Ngrams(Visible(Lifecycle))
  <2>1. model.normal = Learned(many)
    BY <1>2, <1>4 DEF FilesCurrent
  <2>2. \A b \in Labelled("Normal") : NgramsOf(b, many) = Detector!Ngrams(Visible(Lifecycle))
    BY <1>5, <1>7 DEF NgramsOf
  <2>3. Labelled("Normal") # {}
    BY <1>1 DEF LabelledTruly
  <2>4. QED
    BY <2>1, <2>2, <2>3 DEF Learned
<1>9. ASSUME NEW b \in Blocks
      PROVE  b \in Flagged(cap) <=> b \in Novelties
  <2>1. PICK v : v = Visible(sequences[b]) /\ v = EventsOf(b, cap) /\ Len(v) \in Nat
    BY <1>5, <1>6
  <2>2. Detector!Fires(v) <=> ~(Detector!Ngrams(v) \subseteq Detector!Ngrams(Visible(Lifecycle)))
    BY <1>8, <2>1, FiresOnNovel DEF Detector!Novel
  <2>3. Detector!Fires(v) => v # <<>>
    <3> SUFFICES ASSUME v = <<>> PROVE ~Detector!Fires(v)
      OBVIOUS
    <3>1. Len(<<>>) = 0 /\ (N > 0 => 1..(0 - N + 1) = {})
      BY EvaluationAssumption
    <3>2. Detector!Ngrams(v) = {}
      BY <3>1, EvaluationAssumption DEF Detector!Ngrams
    <3>3. QED
      BY <3>2 DEF Detector!Fires
  <2>4. b \notin Labelled("none")
    BY <1>1 DEF LabelledTruly, Labelled
  <2>5. b \in Universe(cap) <=> v # <<>>
    BY <2>1, <2>4 DEF Universe, Observed
  <2>6. b \in Flagged(cap) <=> Detector!Fires(v)
    BY <2>1, <2>3, <2>5 DEF Flagged
  <2>7. QED
    BY <2>1, <2>2, <2>6 DEF Novelties
<1>10. \A b \in Flagged(cap) : b \in Blocks
  BY DEF Flagged, Universe, Observed
<1>11. QED
  BY <1>3, <1>9, <1>10 DEF Novelties

\* Whatever the lifecycle, the templates and n: a model trained on the whole of a
\* truthfully labelled log flags just the blocks with an n-gram that the lifecycle
\* does not have, however the lines of the blocks are interleaved.
THEOREM CaughtByNgramsAlways == EvaluationSpec => []CaughtByNgrams
<1>1. LogWritten /\ FilesCurrent /\ LogTold => CaughtByNgrams
  BY PredictedNovelties DEF CaughtByNgrams
<1>2. QED
  BY <1>1, LogToldAlways, PTL

\* Whatever the lifecycle, the templates and n, if by the templates a block that has
\* n-grams of the lifecycle only can be told from one that does not begin like it:
\* just the injected anomalies that are no beginning of the lifecycle are flagged.
THEOREM InjectedCaughtAlways ==
  ASSUME Tellable
  PROVE  EvaluationSpec => []InjectedCaught
<1>1. LogWritten /\ FilesCurrent /\ LogTold => InjectedCaught
  <2> SUFFICES ASSUME LogWritten, FilesCurrent, LogTold, WholeLogScored
               PROVE  report.predicted =
                        {b \in Blocks : ~IsPrefix(Visible(sequences[b]), Visible(Lifecycle))}
    BY DEF InjectedCaught
  <2>1. \A b \in Blocks : sequences[b] \in Generated
    BY DEF LogTold, WholeLogScored, Evaluated
  <2>2. \A s \in Generated :
          Detector!Ngrams(Visible(s)) \subseteq Detector!Ngrams(Visible(Lifecycle))
            <=> IsPrefix(Visible(s), Visible(Lifecycle))
    BY DEF Tellable, Generated
  <2>3. QED
    BY <2>1, <2>2, PredictedNovelties DEF Novelties
<1>2. QED
  BY <1>1, LogToldAlways, PTL

-------------------------------------------------------------------------------
(* The counts of a report. *)

\* Scored items are partitioned by prediction and label.
LEMMA ConfusionCounts ==
  ASSUME NEW universe, IsFiniteSet(universe), NEW predicted \in SUBSET universe,
         NEW actual \in SUBSET universe, NEW cm, cm = Confusion(predicted, actual, universe)
  PROVE  /\ cm.tp \in Nat /\ cm.fp \in Nat /\ cm.fn \in Nat /\ cm.tn \in Nat
         /\ cm.tp + cm.fp + cm.tn + cm.fn = Cardinality(universe)
         /\ cm.tp + cm.fp = Cardinality(predicted) /\ cm.tp + cm.fn = Cardinality(actual)
<1> DEFINE rest == universe \ predicted
<1>1. IsFiniteSet(predicted) /\ IsFiniteSet(actual) /\ IsFiniteSet(rest)
  BY FS_Subset
<1>2. /\ cm.tp = Cardinality(predicted \cap actual) /\ cm.fp = Cardinality(predicted \ actual)
      /\ cm.fn = Cardinality(actual \ predicted) /\ cm.tn = Cardinality(rest \ actual)
  BY DEF Confusion
<1>3. /\ IsFiniteSet(predicted \cap actual) /\ IsFiniteSet(predicted \ actual)
      /\ IsFiniteSet(actual \ predicted) /\ IsFiniteSet(rest \ actual)
  BY <1>1, FS_Subset
<1>4. cm.tp \in Nat /\ cm.fp \in Nat /\ cm.fn \in Nat /\ cm.tn \in Nat
  BY <1>2, <1>3, FS_CardinalityType
<1>5. PICK p \in Nat, a \in Nat, u \in Nat, r \in Nat :
        /\ p = Cardinality(predicted) /\ a = Cardinality(actual)
        /\ u = Cardinality(universe) /\ r = Cardinality(rest)
  BY <1>1, FS_CardinalityType
<1>6. cm.fp = p - cm.tp
  <2>1. Cardinality(predicted \ actual) = Cardinality(predicted) - Cardinality(predicted \cap actual)
    BY <1>1, FS_Difference, Zenon
  <2>2. QED
    BY <1>2, <1>5, <2>1
<1>7. cm.fn = a - cm.tp
  <2>1. actual \cap predicted = predicted \cap actual
    OBVIOUS
  <2>2. Cardinality(actual \ predicted) = Cardinality(actual) - Cardinality(actual \cap predicted)
    BY <1>1, FS_Difference, Zenon
  <2>3. QED
    BY <1>2, <1>5, <2>1, <2>2
<1>8. r = u - p
  <2>1. universe \cap predicted = predicted
    OBVIOUS
  <2>2. Cardinality(rest) = Cardinality(universe) - Cardinality(universe \cap predicted)
    BY FS_Difference, Zenon
  <2>3. QED
    BY <1>5, <2>1, <2>2
<1>9. cm.tn = r - cm.fn
  <2>1. rest \cap actual = actual \ predicted
    OBVIOUS
  <2>2. Cardinality(rest \ actual) = Cardinality(rest) - Cardinality(rest \cap actual)
    BY <1>1, FS_Difference
  <2>3. QED
    BY <1>2, <1>5, <2>1, <2>2
<1>10. QED
  BY <1>4, <1>5, <1>6, <1>7, <1>8, <1>9

LEMMA QuotientIsShare == \A a \in Nat, b \in Nat : IsShare(Quotient(a, b), a, b)
<1> SUFFICES ASSUME NEW a \in Nat, NEW b \in Nat PROVE IsShare(Quotient(a, b), a, b)
  OBVIOUS
<1>1. CASE b = 0
  BY <1>1 DEF IsShare, Quotient
<1>2. CASE b # 0
  BY <1>2 DEF IsShare, Quotient
<1>3. QED
  BY <1>1, <1>2

\* F1 is 2 TP / (2 TP + FP + FN), and 0 with nothing to divide by.
LEMMA F1Value ==
  ASSUME NEW cm, NEW tp \in Nat, NEW fp \in Nat, NEW fn \in Nat,
         cm.tp = tp, cm.fp = fp, cm.fn = fn
  PROVE  IsShare(F1(cm), 2 * tp, (tp + fp) + (tp + fn))
<1> DEFINE p == Precision(cm)
           r == Recall(cm)
           a == 2 * p.num * r.num
           b == p.num * r.den + r.num * p.den
           all == (tp + fp) + (tp + fn)
<1>1. F1(cm) = Quotient(a, b) /\ p = Quotient(tp, tp + fp) /\ r = Quotient(tp, tp + fn)
  BY DEF F1, Precision, Recall
<1> HIDE DEF p, r
<1>2. CASE tp = 0
  <2>1. p.num = 0 /\ r.num = 0 /\ p.den \in Nat /\ r.den \in Nat
    BY <1>1, <1>2 DEF Quotient
  <2>2. a = 0 /\ b = 0
    BY <2>1
  <2>3. F1(cm) = [num |-> 0, den |-> 1]
    BY <1>1, <2>2 DEF Quotient
  <2>4. QED
    BY <1>2, <2>3 DEF IsShare
<1>3. CASE tp # 0
  <2>1. p = [num |-> tp, den |-> tp + fp] /\ r = [num |-> tp, den |-> tp + fn]
    BY <1>1, <1>3 DEF Quotient
  <2>2. a = 2 * tp * tp /\ b = tp * (tp + fn) + tp * (tp + fp)
    BY <2>1
  <2>3. tp * (tp + fn) + tp * (tp + fp) = tp * all
    OBVIOUS
  <2>4. tp * all > 0
    BY <1>3
  <2>5. F1(cm) = [num |-> 2 * tp * tp, den |-> tp * all]
    BY <1>1, <2>2, <2>3, <2>4 DEF Quotient
  <2>6. (2 * tp * tp) * all = 2 * tp * (tp * all)
    OBVIOUS
  <2>7. tp * all > 0 /\ all # 0
    BY <2>4
  <2> HIDE DEF all
  <2>8. IsShare([num |-> 2 * tp * tp, den |-> tp * all], 2 * tp, all)
    BY <2>6, <2>7 DEF IsShare
  <2>9. QED
    BY <2>5, <2>8 DEF all
<1>4. QED
  BY <1>2, <1>3

\* What is scored is finite, and holds what is flagged and what is anomalous.
LEMMA ReportSets ==
  ASSUME LogWritten, FilesCurrent, report # None
  PROVE  /\ IsFiniteSet(report.universe)
         /\ report.predicted \in SUBSET report.universe /\ report.actual \in SUBSET report.universe
         /\ report.cm = Confusion(report.predicted, report.actual, report.universe)
<1>1. PICK cap \in LineCaps :
        \/ report = HdfsReport(cap)
        \/ \E width \in WindowWidths : \E predicted \in SUBSET DOMAIN Rates(cap, width) :
             report = BglReport(cap, width, predicted)
  BY DEF FilesCurrent
<1>2. CASE report = HdfsReport(cap)
  <2>1. /\ report.universe = Universe(cap) /\ report.predicted = Flagged(cap)
        /\ report.actual = ActualAnomalies(cap)
        /\ report.cm = Confusion(report.predicted, report.actual, report.universe)
    BY <1>2 DEF HdfsReport, Report
  <2>2. Universe(cap) \in SUBSET Blocks
    BY DEF Universe, Observed
  <2>3. IsFiniteSet(Universe(cap))
    BY <2>2, EvaluationAssumption, FS_Subset
  <2>4. QED
    BY <2>1, <2>3 DEF Flagged, ActualAnomalies
<1>3. ASSUME NEW width \in WindowWidths, NEW predicted \in SUBSET DOMAIN Rates(cap, width),
             report = BglReport(cap, width, predicted)
      PROVE  /\ IsFiniteSet(report.universe)
             /\ report.predicted \in SUBSET report.universe /\ report.actual \in SUBSET report.universe
             /\ report.cm = Confusion(report.predicted, report.actual, report.universe)
  <2>1. /\ report.universe = DOMAIN Rates(cap, width) /\ report.predicted = predicted
        /\ report.actual = AlertWindows(cap, width)
        /\ report.cm = Confusion(report.predicted, report.actual, report.universe)
    BY <1>3 DEF BglReport, Report
  <2> DEFINE window(i) == Window(FirstLines(cap)[i].time, width)
             n == Len(FirstLines(cap))
             K == {window(i) : i \in 1..n}
  <2>2. cap \in Nat
    BY EvaluationAssumption
  <2>3. FirstLines(cap) \in Seq(Range(log)) /\ n \in Nat
    BY <2>2, FirstLinesFacts
  <2>4. DOMAIN Rates(cap, width) = K
    BY <2>3 DEF Rates
  <2> HIDE DEF window
  <2>5. IsFiniteSet(K)
    <3>1. [i \in 1..n |-> window(i)] \in Surjection(1..n, K)
      BY DEF Surjection
    <3>2. QED
      BY <2>3, <3>1, FS_Interval, FS_Surjection
  <2>6. AlertWindows(cap, width) \in SUBSET DOMAIN Rates(cap, width)
    BY DEF AlertWindows
  <2>7. QED
    BY <2>1, <2>4, <2>5, <2>6
<1>4. QED
  BY <1>1, <1>2, <1>3

\* For every log, label and flag, a report of either evaluator counts each block or
\* window once, its positives are the anomalies among them, and its precision, recall
\* and F1 are the shares they should be, 0 where there is nothing to divide by
\* (_eval_common.py, ConfusionMatrix).
THEOREM ReportAddsUpAlways == EvaluationSpec => []ReportAddsUp
<1>1. ASSUME LogWritten, FilesCurrent PROVE ReportAddsUp
  <2> SUFFICES ASSUME report # None PROVE ReportAddsUp
    BY DEF ReportAddsUp
  <2>1. PICK cm, p, a, u : /\ cm = report.cm /\ p = report.predicted
                           /\ a = report.actual /\ u = report.universe
    OBVIOUS
  <2>2. IsFiniteSet(u) /\ p \in SUBSET u /\ a \in SUBSET u /\ cm = Confusion(p, a, u)
    BY <1>1, <2>1, ReportSets
  <2>3. PICK hits : hits = Cardinality(p \cap a) /\ cm.tp = hits
    BY <2>2 DEF Confusion
  <2>4. PICK flagged \in Nat, actual \in Nat : flagged = Cardinality(p) /\ actual = Cardinality(a)
    BY <2>2, FS_Subset, FS_CardinalityType
  <2>5. /\ cm.tp \in Nat /\ cm.fp \in Nat /\ cm.fn \in Nat
        /\ cm.tp + cm.fp + cm.tn + cm.fn = Cardinality(u)
        /\ cm.tp + cm.fp = flagged /\ cm.tp + cm.fn = actual
    BY <2>2, <2>4, ConfusionCounts
  <2>6. IsShare(Precision(cm), hits, flagged) /\ IsShare(Recall(cm), hits, actual)
    <3>1. Precision(cm) = Quotient(hits, flagged) /\ Recall(cm) = Quotient(hits, actual)
      BY <2>3, <2>5 DEF Precision, Recall
    <3>2. QED
      BY <2>3, <2>5, <3>1, QuotientIsShare
  <2>7. IsShare(F1(cm), 2 * hits, flagged + actual)
    BY <2>3, <2>5, F1Value
  <2>8. /\ flagged = Cardinality(report.predicted) /\ actual = Cardinality(report.actual)
        /\ hits = Cardinality(report.predicted \cap report.actual)
    BY <2>1, <2>3, <2>4
  <2>9. QED
    BY <2>1, <2>5, <2>6, <2>7, <2>8 DEF ReportAddsUp
<1>2. QED
  BY <1>1, FilesAlways, PTL

-------------------------------------------------------------------------------
(* The windows. *)

\* What is kept is as many as there were.
LEMMA FilterCount ==
  ASSUME NEW D, NEW s \in Seq(D), NEW T
  PROVE  Len(Filter(s, T)) = Cardinality({i \in DOMAIN s : s[i] \in T})
<1>1. PICK r \in Seq(D) : r = Filter(s, T)
  BY FilterKeeps
<1>2. PICK m \in Nat, n \in Nat : m = Len(r) /\ n = Len(s) /\ DOMAIN s = 1..n
  OBVIOUS
<1>3. PICK pos : Positions(pos, r, n, s, T)
  BY <1>1, <1>2, FilterPositions
<1> DEFINE S == {i \in 1..n : s[i] \in T}
<1>4. /\ pos \in [1..m -> 1..n] /\ \A i \in 1..m : s[pos[i]] \in T
      /\ \A i, j \in 1..m : i < j => pos[i] < pos[j]
      /\ \A k \in 1..n : s[k] \in T => \E i \in 1..m : pos[i] = k
  BY <1>2, <1>3 DEF Positions, Ascends
<1>5. pos \in [1..m -> S]
  BY <1>4
<1>6. \A i, j \in 1..m : pos[i] = pos[j] => i = j
  <2> SUFFICES ASSUME NEW i \in 1..m, NEW j \in 1..m, pos[i] = pos[j], i # j PROVE FALSE
    OBVIOUS
  <2>1. pos[i] \in 1..n /\ pos[j] \in 1..n /\ (i < j \/ j < i)
    BY <1>4
  <2>2. QED
    BY <1>4, <2>1
<1>7. \A k \in S : \E i \in 1..m : pos[i] = k
  BY <1>4
<1> HIDE DEF S
<1>8. pos \in Bijection(1..m, S)
  <2>1. pos \in Injection(1..m, S)
    BY <1>5, <1>6 DEF Injection, IsInjective
  <2>2. pos \in Surjection(1..m, S)
    BY <1>5, <1>7 DEF Surjection
  <2>3. QED
    BY <2>1, <2>2 DEF Bijection
<1>9. Cardinality(S) = m
  BY <1>8, FS_CountingElements DEF ExistsBijection
<1>10. QED
  BY <1>1, <1>2, <1>9 DEF S

LEMMA Division ==
  ASSUME NEW a \in Nat, NEW b \in Nat \ {0}
  PROVE  \E q \in Nat, r \in 0..(b - 1) : a = b * q + r /\ q = a \div b /\ r = a % b
<1>1. a = b * (a \div b) + (a % b) /\ a \div b \in Nat /\ a % b \in 0..(b - 1)
  OBVIOUS
<1>2. QED
  BY <1>1, Zenon

LEMMA Divides ==
  ASSUME NEW w \in Nat \ {0}, NEW j \in Nat, j % w = 0
  PROVE  \E x \in Nat : j = w * x
<1>1. PICK q \in Nat, r \in 0..(w - 1) : j = w * q + r /\ q = j \div w /\ r = j % w
  BY Division
<1>2. j = w * q
  BY <1>1
<1>3. QED
  BY <1>2

LEMMA MultipleOf ==
  ASSUME NEW w \in Nat \ {0}, NEW x \in Nat
  PROVE  (w * x) % w = 0
<1>1. PICK q \in Nat, r \in 0..(w - 1) : w * x = w * q + r /\ r = (w * x) % w
  <2>1. w * x \in Nat
    OBVIOUS
  <2>2. QED
    BY <2>1, Division
<1>2. ~(q < x)
  <2>1. ASSUME q < x PROVE FALSE
    <3>1. PICK e \in Nat : x = q + 1 + e
      <4>1. x - q - 1 \in Nat /\ x = q + 1 + (x - q - 1)
        BY <2>1
      <4>2. QED
        BY <4>1
    <3>2. w * x = w * q + w + w * e /\ w * e >= 0
      BY <3>1
    <3>3. QED
      BY <1>1, <3>2
  <2>2. QED
    BY <2>1
<1>3. ~(x < q)
  <2>1. ASSUME x < q PROVE FALSE
    <3>1. PICK e \in Nat : q = x + 1 + e
      <4>1. q - x - 1 \in Nat /\ q = x + 1 + (q - x - 1)
        BY <2>1
      <4>2. QED
        BY <4>1
    <3>2. w * q = w * x + w + w * e /\ w * e >= 0
      BY <3>1
    <3>3. QED
      BY <1>1, <3>2
  <2>2. QED
    BY <2>1
<1>4. QED
  BY <1>1, <1>2, <1>3

\* A second is in one window only.
LEMMA OneWindow ==
  ASSUME NEW w \in Nat \ {0}, NEW k \in Nat, NEW l \in Nat, NEW t \in Nat,
         k % w = 0, l % w = 0, k <= t, t < k + w, l <= t, t < l + w
  PROVE  k = l
<1>1. PICK x \in Nat, y \in Nat : k = w * x /\ l = w * y
  BY Divides
<1>2. ~(x < y)
  <2>1. ASSUME x < y PROVE FALSE
    <3>1. PICK e \in Nat : y = x + 1 + e
      <4>1. y - x - 1 \in Nat /\ y = x + 1 + (y - x - 1)
        BY <2>1
      <4>2. QED
        BY <4>1
    <3>2. w * y = w * x + w + w * e /\ w * e >= 0
      BY <3>1
    <3>3. QED
      BY <1>1, <3>2
  <2>2. QED
    BY <2>1
<1>3. ~(y < x)
  <2>1. ASSUME y < x PROVE FALSE
    <3>1. PICK e \in Nat : x = y + 1 + e
      <4>1. x - y - 1 \in Nat /\ x = y + 1 + (x - y - 1)
        BY <2>1
      <4>2. QED
        BY <4>1
    <3>2. w * x = w * y + w + w * e /\ w * e >= 0
      BY <3>1
    <3>3. QED
      BY <1>1, <3>2
  <2>2. QED
    BY <2>1
<1>4. QED
  BY <1>1, <1>2, <1>3

\* The window of a second begins at a multiple of the width and holds it.
LEMMA WindowHolds ==
  ASSUME NEW t \in Nat, NEW w \in Nat \ {0}, Admissible(w)
  PROVE  /\ Window(t, w) \in Nat /\ Window(t, w) % w = 0
         /\ Window(t, w) <= t /\ t < Window(t, w) + w
<1>1. PICK a \in Nat, b \in 0..59 : t = 60 * a + b /\ a = t \div 60 /\ b = t % 60
  OBVIOUS
<1>2. CASE w < 60
  <2>1. PICK q \in Nat : 60 = w * q
    <3>1. 60 % w = 0
      BY <1>2 DEF Admissible
    <3>2. QED
      BY <3>1, Divides
  <2>2. PICK c \in Nat, d \in 0..(w - 1) : b = w * c + d /\ c = b \div w /\ d = b % w
    BY Division
  <2>3. Window(t, w) = a * 60 + c * w
    BY <1>1, <1>2, <2>2 DEF Window
  <2>4. a * 60 + c * w = w * (a * q + c)
    <3>1. a * 60 = a * (w * q)
      BY <2>1
    <3>2. a * (w * q) + c * w = w * (a * q + c)
      OBVIOUS
    <3>3. QED
      BY <3>1, <3>2
  <2>5. a * q + c \in Nat
    OBVIOUS
  <2>6. PICK x \in Nat : x = a * q + c
    BY <2>5
  <2>7. (w * x) % w = 0 /\ w * x \in Nat
    BY MultipleOf
  <2>8. t = Window(t, w) + d
    <3>1. PICK y \in Nat : y = c * w /\ w * c = y
      OBVIOUS
    <3>2. b = y + d /\ t = 60 * a + b
      BY <1>1, <2>2, <3>1
    <3>3. Window(t, w) = a * 60 + y
      BY <2>3, <3>1
    <3>4. QED
      BY <3>2, <3>3
  <2>9. QED
    BY <2>3, <2>4, <2>6, <2>7, <2>8
<1>3. CASE ~(w < 60)
  <2>1. PICK m \in Nat \ {0} : w = 60 * m /\ m = w \div 60
    <3>1. w % 60 = 0
      BY <1>3 DEF Admissible
    <3>2. PICK m \in Nat : w = 60 * m /\ m = w \div 60
      BY <3>1, Division
    <3>3. QED
      BY <1>3, <3>2
  <2>2. PICK q \in Nat : 3600 = w * q
    <3>1. 3600 % w = 0
      BY <1>3 DEF Admissible
    <3>2. PICK n \in Nat : n = 3600
      OBVIOUS
    <3>3. n % w = 0
      BY <3>1, <3>2
    <3>4. PICK q \in Nat : n = w * q
      BY <3>3, Divides
    <3>5. QED
      BY <3>2, <3>4
  <2>3. PICK h \in Nat, minute \in 0..59 : a = 60 * h + minute /\ minute = a % 60
    OBVIOUS
  <2>4. h = t \div 3600
    BY <1>1, <2>3
  <2>5. PICK c \in Nat, d \in 0..(m - 1) :
          minute = m * c + d /\ c = minute \div m /\ d = minute % m
    BY Division
  <2>6. Window(t, w) = h * 3600 + (c * m) * 60
    <3>1. Window(t, w) = (t \div 3600) * 3600
                         + (((((t \div 60) % 60) \div (w \div 60)) * (w \div 60)) * 60)
      BY <1>3 DEF Window
    <3>2. t \div 60 = a /\ a % 60 = minute /\ w \div 60 = m /\ minute \div m = c
      BY <1>1, <2>1, <2>3, <2>5
    <3>3. (((t \div 60) % 60) \div (w \div 60)) * (w \div 60) = c * m
      BY <3>2, Zenon
    <3>4. PICK x : x = (((t \div 60) % 60) \div (w \div 60)) * (w \div 60) /\ x = c * m
      BY <3>3
    <3>5. Window(t, w) = (t \div 3600) * 3600 + (x * 60)
      BY <3>1, <3>4
    <3>6. QED
      BY <2>4, <3>4, <3>5
  <2>7. h * 3600 + (c * m) * 60 = w * (h * q + c)
    <3>1. h * 3600 = h * (w * q)
      BY <2>2
    <3>2. (c * m) * 60 = c * w
      BY <2>1
    <3>3. h * (w * q) + c * w = w * (h * q + c)
      OBVIOUS
    <3>4. QED
      BY <3>1, <3>2, <3>3
  <2>8. PICK x \in Nat : x = h * q + c
    OBVIOUS
  <2>9. (w * x) % w = 0 /\ w * x \in Nat
    BY MultipleOf
  <2>10. t = Window(t, w) + 60 * d + b
    <3>1. PICK y \in Nat : y = c * m /\ m * c = y
      OBVIOUS
    <3>2. minute = y + d /\ a = 60 * h + minute /\ t = 60 * a + b
      BY <1>1, <2>3, <2>5, <3>1
    <3>3. Window(t, w) = h * 3600 + y * 60
      BY <2>6, <3>1
    <3>4. QED
      BY <3>2, <3>3
  <2>11. 60 * d + b \in 0..(w - 1)
    BY <2>1
  <2>12. QED
    BY <2>6, <2>7, <2>8, <2>9, <2>10, <2>11
<1>4. QED
  BY <1>2, <1>3

Within(k, cap, width) ==
  {i \in DOMAIN FirstLines(cap) : FirstLines(cap)[i].time \in k..(k + width - 1)}

LEMMA LinesOfBgl ==
  ASSUME LogWritten, format = "bgl", NEW cap \in Nat
  PROVE  /\ FirstLines(cap) \in Seq(Range(log))
         /\ \A i \in DOMAIN FirstLines(cap) :
              FirstLines(cap)[i] \in Range(log) /\ FirstLines(cap)[i].time \in Nat
<1>1. PICK R : R = Range(log)
  OBVIOUS
<1>2. PICK s \in Seq(R), n \in Nat : s = FirstLines(cap) /\ n = Len(s) /\ n <= Len(log)
  BY <1>1, FirstLinesFacts
<1>3. log \in Seq(BglLine)
  BY DEF LogWritten
<1>4. ASSUME NEW i \in 1..n PROVE s[i] \in R /\ s[i].time \in Nat
  <2>1. i \in 1..Len(log) /\ s[i] = log[i]
    <3>1. s[i] = log[i]
      BY <1>2, FirstLinesFacts
    <3>2. PICK h \in Nat : h = Len(log)
      BY <1>3
    <3>3. i \in 1..h
      BY <1>2, <3>2
    <3>4. QED
      BY <3>1, <3>2, <3>3
  <2>2. log[i] \in BglLine
    BY <1>3, <2>1
  <2>3. QED
    BY <1>2, <2>1, <2>2 DEF BglLine
<1>5. QED
  BY <1>1, <1>2, <1>4

\* The lines read of a window.
LEMMA LinesOfWindow ==
  ASSUME LogWritten, format = "bgl", NEW cap \in Nat, NEW width \in Nat \ {0},
         Admissible(width), NEW k \in DOMAIN Rates(cap, width)
  PROVE  /\ k % width = 0
         /\ Rates(cap, width)[k] = Cardinality(Within(k, cap, width))
         /\ (\E i \in DOMAIN LinesIn(k, cap, width) : LinesIn(k, cap, width)[i].alert)
              <=> \E i \in Within(k, cap, width) : FirstLines(cap)[i].alert
<1>1. PICK R, T : R = Range(log) /\ T = {l \in Range(log) : Window(l.time, width) = k}
  OBVIOUS
<1>2. PICK s \in Seq(R) : s = FirstLines(cap)
  BY <1>1, LinesOfBgl
<1>3. \A i \in DOMAIN s : s[i] \in R /\ s[i].time \in Nat
  BY <1>1, <1>2, LinesOfBgl
<1>4. LinesIn(k, cap, width) = Filter(s, T)
  BY <1>1, <1>2 DEF LinesIn
<1>5. Rates(cap, width)[k] = Len(Filter(s, T)) /\ \E i \in DOMAIN s : k = Window(s[i].time, width)
  BY <1>2, <1>4 DEF Rates
<1>6. k \in Nat /\ k % width = 0
  BY <1>3, <1>5, WindowHolds
<1>7. ASSUME NEW i \in DOMAIN s PROVE s[i] \in T <=> s[i].time \in k..(k + width - 1)
  <2>1. PICK t \in Nat : t = s[i].time
    BY <1>3
  <2>2. PICK x \in Nat : x = Window(t, width) /\ x % width = 0 /\ x <= t /\ t < x + width
    BY WindowHolds
  <2>3. s[i] \in T <=> x = k
    BY <1>1, <1>3, <2>1, <2>2
  <2>4. x = k => t \in k..(k + width - 1)
    BY <1>6, <2>2
  <2>5. ASSUME t \in k..(k + width - 1) PROVE x = k
    <3>1. k <= t /\ t < k + width
      BY <1>6, <2>5
    <3>2. QED
      BY <1>6, <2>2, <3>1, OneWindow
  <2>6. QED
    BY <2>1, <2>3, <2>4, <2>5
<1>8. Within(k, cap, width) = {i \in DOMAIN s : s[i] \in T}
  BY <1>2, <1>7 DEF Within
<1>9. Rates(cap, width)[k] = Cardinality(Within(k, cap, width))
  BY <1>5, <1>8, FilterCount
<1>10. Range(Filter(s, T)) = Range(s) \cap T
  BY FilterKeeps
<1>11. (\E i \in DOMAIN Filter(s, T) : Filter(s, T)[i].alert)
         <=> \E i \in Within(k, cap, width) : s[i].alert
  BY <1>8, <1>10 DEF Range
<1>12. QED
  BY <1>2, <1>4, <1>6, <1>9, <1>11

\* For every log and cap, and every width that divides the minute or is a number of
\* minutes that divides the hour, the windows that evaluate_bgl_point.py scores are the
\* intervals of that width that hold a line, each with the number of its lines, and those
\* it calls anomalous are the ones with an alert (_aggregate).
THEOREM WindowsExactAlways == EvaluationSpec => []WindowsExact
<1>1. ASSUME LogWritten, FilesCurrent PROVE WindowsExact
  <2> SUFFICES ASSUME Evaluated("bgl"), Admissible(report.width)
               PROVE  LET lines == FirstLines(report.cap)
                          within(k) == {i \in DOMAIN lines :
                                          lines[i].time \in k..(k + report.width - 1)}
                      IN  /\ \A k \in DOMAIN report.windows :
                               k % report.width = 0 /\ report.windows[k] = Cardinality(within(k))
                          /\ \A i \in DOMAIN lines : \E k \in DOMAIN report.windows : i \in within(k)
                          /\ report.actual =
                               {k \in DOMAIN report.windows : \E i \in within(k) : lines[i].alert}
    BY DEF WindowsExact
  <2>1. PICK cap \in LineCaps, width \in WindowWidths :
          \E predicted \in SUBSET DOMAIN Rates(cap, width) :
            report = BglReport(cap, width, predicted)
    BY <1>1 DEF FilesCurrent, Evaluated
  <2>2. /\ report.cap = cap /\ report.width = width /\ report.windows = Rates(cap, width)
        /\ report.actual = AlertWindows(cap, width)
    BY <2>1 DEF BglReport, Report
  <2>3. format = "bgl" /\ Admissible(width) /\ cap \in Nat /\ width \in Nat \ {0}
    BY <2>2, EvaluationAssumption DEF Evaluated
  <2>4. \A k \in DOMAIN Rates(cap, width) :
          /\ k % width = 0
          /\ Rates(cap, width)[k] = Cardinality(Within(k, cap, width))
          /\ (\E i \in DOMAIN LinesIn(k, cap, width) : LinesIn(k, cap, width)[i].alert)
               <=> \E i \in Within(k, cap, width) : FirstLines(cap)[i].alert
    BY <1>1, <2>3, LinesOfWindow
  <2>5. ASSUME NEW i \in DOMAIN FirstLines(cap)
        PROVE  \E k \in DOMAIN Rates(cap, width) : i \in Within(k, cap, width)
    <3>1. PICK t \in Nat : t = FirstLines(cap)[i].time
      BY <1>1, <2>3, LinesOfBgl
    <3>2. PICK k \in Nat : k = Window(t, width) /\ k <= t /\ t < k + width
      BY <2>3, WindowHolds
    <3>3. k \in DOMAIN Rates(cap, width)
      BY <3>1, <3>2 DEF Rates
    <3>4. t \in k..(k + width - 1)
      BY <2>3, <3>2
    <3>5. QED
      BY <3>1, <3>3, <3>4 DEF Within
  <2>6. AlertWindows(cap, width) =
          {k \in DOMAIN Rates(cap, width) :
             \E i \in Within(k, cap, width) : FirstLines(cap)[i].alert}
    BY <2>4 DEF AlertWindows
  <2> DEFINE lines == FirstLines(report.cap)
             within(k) == {i \in DOMAIN lines : lines[i].time \in k..(k + report.width - 1)}
  <2>7. \A k : within(k) = Within(k, cap, width)
    BY <2>2 DEF Within
  <2>8. lines = FirstLines(cap)
    BY <2>2
  <2> HIDE DEF lines, within
  <2>9. /\ \A k \in DOMAIN report.windows :
             k % report.width = 0 /\ report.windows[k] = Cardinality(within(k))
        /\ \A i \in DOMAIN lines : \E k \in DOMAIN report.windows : i \in within(k)
        /\ report.actual = {k \in DOMAIN report.windows : \E i \in within(k) : lines[i].alert}
    BY <2>2, <2>4, <2>5, <2>6, <2>7, <2>8
  <2>10. QED
    BY <2>9 DEF lines, within
<1>2. QED
  BY <1>1, FilesAlways, PTL

===============================================================================
