-------------------------- MODULE Instrumentations --------------------------
(***************************************************************************)
(* The Instrumentation resource: its admission webhook                     *)
(* (apis/v1alpha1/instrumentation_webhook.go) and the upgrade of its       *)
(* images when the operator starts (pkg/instrumentation/upgrade).          *)
(*                                                                         *)
(* An image is a pair: <<"java", 2>> is the default image for Java of      *)
(* version 2 of the operator.  An instance has an image for each language, *)
(* and an annotation with the default image at the time it was written.    *)
(* Resource requirements are left out.                                     *)
(***************************************************************************)
EXTENDS Injection

NoImage == <<"", 0>>

\* The variables of the agents, whose names do not start with OTEL_ or SPLUNK_.
Unprefixed ==
    {"JAVA_TOOL_OPTIONS", "NODE_OPTIONS", "PYTHONPATH", "CORECLR_PROFILER",
     "DOTNET_STARTUP_HOOKS"}

\* Default, of an instance that is decoded into a copy of the one that the webhook is
\* registered with: an annotation that is missing has the default of this version.
Default(inst, version) ==
    LET annotation == [l \in Language |-> IF inst.annotation[l] = NoImage THEN <<l, version>>
                                          ELSE inst.annotation[l]]
    IN  [inst EXCEPT !.annotation = annotation,
                     !.image = [l \in Language |-> IF @[l] = NoImage THEN annotation[l] ELSE @[l]],
                     !.managedBy = IF @ = "" THEN "opentelemetry-operator" ELSE @]

\* Mutant of validateEnv: any name will do.
validateAnyEnv(env) == TRUE

\* validateEnv
validateEnv(env) == \A v \in Range(env) : v.name \notin Unprefixed

\* validate: the argument of a ratio sampler is a number between 0 and 1.
validate(inst) ==
    /\ inst.sampler \in {"traceidratio", "parentbased_traceidratio"} =>
          inst.samplerArgument \in {"", "0.5"}
    /\ validateEnv(inst.env)
    /\ \A l \in Language : validateEnv(inst.langEnv[l])

\* The default images of a version, as they are given to the upgrade.
DefaultAutoInst(version) == [l \in Language |-> <<IF l = "go" THEN "dotnet" ELSE l, version>>]

\* upgrade: the images that are the default of the version that wrote them.
upgrade(inst, version) ==
    LET follows == {l \in Enabled : inst.annotation[l] # NoImage /\ inst.image[l] = inst.annotation[l]}
        new(images) == [l \in Language |-> IF l \in follows THEN DefaultAutoInst(version)[l]
                                           ELSE images[l]]
    IN  [inst EXCEPT !.image = new(@), !.annotation = new(@)]

=============================================================================
