----------------------------- MODULE Accelerator -----------------------------
(***************************************************************************)
(* What a model of a driver runs on                                        *)
(* (python/src/gosai_py/runtime/accelerator.py): the providers asked of    *)
(* ONNX Runtime, the one its session really got, and the delegate of a     *)
(* MediaPipe task, which the pose driver (drivers/pose.py) asks for twice. *)
(* Providers go by the mode that names them; "cpu" is CPUExecutionProvider *)
(* or the CPU delegate.                                                    *)
(***************************************************************************)
EXTENDS Naturals, Sequences, SequencesExt

Providers == {"cuda", "tensorrt", "coreml", "dml"}   \* ONNX_PROVIDERS
Modes == Providers \cup {"auto", "cpu"}              \* MODES
AutoOrder == <<"cuda", "coreml", "dml">>

VARIABLES
  setting,   \* AcceleratorConfig: mode, allow_cpu_fallback, mediapipe_gpu
  build,     \* what the machine offers: ONNX Runtime's providers, macOS or not
  model,     \* "onnx", "onnx-small" (allow_cpu) or "task" (MediaPipe)
  asked,     \* the providers or delegates asked for, in order
  session,   \* "none", "asked", "refused", "failed", or what it runs on
  reason     \* RuntimeInfo.reason

accVars == <<setting, build, model, asked, session, reason>>

Unset == "unset"
Flags == {"on", "off", Unset}

AccTypeOK ==
  /\ setting \in [mode : Modes, fallback : BOOLEAN, gpu : Flags]
  /\ build \in [offers : SUBSET Providers, mac : BOOLEAN]
  /\ model \in {"onnx", "onnx-small", "task"}
  /\ asked \in Seq(Providers \cup {"cpu"})
  /\ session \in Providers \cup {"cpu", "none", "asked", "refused", "failed"}
  /\ reason \in {"", "requested", "none started", "first did not start", "rejected",
                 "disabled", "no delegate"}

(* What the environment sets does not matter to the other kind of model.   *)
AccInit ==
  /\ setting \in [mode : Modes, fallback : BOOLEAN, gpu : Flags]
  /\ build \in [offers : SUBSET Providers, mac : BOOLEAN]
  /\ model \in {"onnx", "onnx-small", "task"}
  /\ IF model = "task" THEN build.offers = {} /\ ~setting.fallback
                       ELSE ~build.mac /\ setting.gpu = Unset
  /\ asked = <<>> /\ session = "none" /\ reason = ""

-----------------------------------------------------------------------------
\* _check_cpu_allowed: a model that needs an accelerator refuses the CPU.
CpuAllowed == model = "onnx-small" \/ setting.fallback \/ setting.mode = "cpu"

\* The first of `order` among those, "cpu" without one.
First(order, those) ==
  IF \E i \in DOMAIN order : order[i] \in those
  THEN order[CHOOSE i \in DOMAIN order : /\ order[i] \in those
                                         /\ \A j \in 1..(i - 1) : order[j] \notin those]
  ELSE "cpu"

\* The mode itself, or the first accelerated provider of this build.
Wanted ==
  IF setting.mode = "auto" THEN First(AutoOrder, build.offers)
  ELSE IF setting.mode \in build.offers THEN setting.mode ELSE "cpu"

(* choose_onnx_providers.  TensorRT leaves to CUDA what it can't compile.  *)
Choose ==
  /\ model # "task" /\ session = "none"
  /\ IF Wanted = "cpu" /\ ~CpuAllowed
     THEN session' = "refused" /\ UNCHANGED asked
     ELSE /\ session' = "asked"
          /\ asked' = IF Wanted = "tensorrt" /\ "cuda" \in build.offers
                      THEN <<"tensorrt", "cuda">> ELSE <<Wanted>>
  /\ UNCHANGED <<setting, build, model, reason>>

\* Defect: what the session got is not checked again.
Refuses_Never(active) == FALSE

Refuses(active) == active = "cpu" /\ asked[1] # "cpu" /\ ~CpuAllowed

Why(active) ==
  CASE active = "cpu" /\ setting.mode = "cpu" -> "requested"
    [] active = "cpu" /\ setting.mode # "cpu" -> "none started"
    [] active # "cpu" /\ active # asked[1] -> "first did not start"
    [] OTHER -> ""

(* create_onnx_session.  ONNX Runtime drops the providers that fail to     *)
(* start without a word: the session has the first one that did, else the  *)
(* CPU.                                                                    *)
CreateSession ==
  /\ model # "task" /\ session = "asked"
  /\ \E starts \in SUBSET ToSet(asked) :
       LET active == First(asked, starts)
       IN  IF Refuses(active) THEN session' = "refused" /\ UNCHANGED reason
                              ELSE session' = active /\ reason' = Why(active)
  /\ UNCHANGED <<setting, build, model, asked>>

-----------------------------------------------------------------------------
WantsGpu == setting.gpu = "on" \/ (setting.gpu = Unset /\ setting.mode \in {"auto", "coreml"})

\* mediapipe_base_options: the delegate, "coreml" for the GPU's, and its reason.
Delegate(allowGpu) == IF allowGpu /\ WantsGpu /\ build.mac THEN "coreml" ELSE "cpu"

DelegateReason(allowGpu) ==
  IF Delegate(allowGpu) = "coreml" THEN ""
  ELSE IF ~allowGpu THEN "rejected"
  ELSE IF setting.mode = "cpu" THEN "requested"
  ELSE IF setting.gpu = "off" THEN "disabled" ELSE "no delegate"

(* The pose driver's create: the first try may use the GPU, the one after  *)
(* any RuntimeError may not; a second failure is the driver's.             *)
CreateTask ==
  /\ model = "task" /\ session \in {"none", "asked"}
  /\ LET first == session = "none"
     IN  /\ asked' = Append(asked, Delegate(first))
         /\ \/ session' = Delegate(first) /\ reason' = DelegateReason(first)
            \/ session' = (IF first THEN "asked" ELSE "failed") /\ UNCHANGED reason
  /\ UNCHANGED <<setting, build, model>>

AccNext == Choose \/ CreateSession \/ CreateTask

AccSpec == AccInit /\ [][AccNext]_accVars

-----------------------------------------------------------------------------
Runs == session \in Providers \cup {"cpu"}

(* Whatever the build offers and whichever providers fail to start: a      *)
(* model that needs an accelerator never ends up on the CPU unless the     *)
(* setting allows it, is refused only then, runs only on what was asked    *)
(* for and offered, and the runtime info gives a reason exactly when the   *)
(* model runs on something else than the first choice.                     *)
RunsWhereAllowed ==
  /\ model = "onnx" /\ session = "cpu" => setting.fallback \/ setting.mode = "cpu"
  /\ session = "refused" => model = "onnx" /\ ~setting.fallback /\ setting.mode # "cpu"
  /\ model # "task" /\ session \in Providers =>
       /\ session \in build.offers
       /\ setting.mode \in {"auto", session} \/ (setting.mode = "tensorrt" /\ session = "cuda")
  /\ model = "task" /\ session = "coreml" => build.mac /\ setting.gpu # "off"
  /\ Runs => (reason = "" <=> session # "cpu" /\ session = asked[1])

(* "MediaPipe GPU delegate rejected this model" is said of a GPU delegate  *)
(* that was tried (accelerator.py:285-286).                                *)
RejectedWasTried == reason = "rejected" => "coreml" \in ToSet(asked)
=============================================================================
