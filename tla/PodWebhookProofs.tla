-------------------------- MODULE PodWebhookProofs --------------------------
(***************************************************************************)
(* Proofs about PodWebhook: the images of the Instrumentation instances,   *)
(* and what the two mutators make of a pod, for all pods, collectors and   *)
(* instances.                                                              *)
(***************************************************************************)
EXTENDS PodShapes, InjectionProofs

\* The prover of a leaf that names none.
USE ZenonT(60)

-----------------------------------------------------------------------------
(* The instances.                                                          *)

LEMMA DefaultType ==
    ASSUME NEW i \in Instance, NEW v \in Nat
    PROVE  Default(i, v) \in Instance
<1> DEFINE a == [l \in Language |-> IF i.annotation[l] = NoImage THEN <<l, v>>
                                    ELSE i.annotation[l]]
           m == [l \in Language |-> IF i.image[l] = NoImage THEN a[l] ELSE i.image[l]]
           b == IF i.managedBy = "" THEN "opentelemetry-operator" ELSE i.managedBy
<1>1. \A l \in Language : <<l, v>> \in Image
  BY SMTT(30) DEF Image
<1>2. a \in [Language -> Image]
  BY <1>1 DEF Instance
<1> HIDE DEF a
<1>3. m \in [Language -> Image]
  BY <1>2 DEF Instance
<1>4. Default(i, v) = [i EXCEPT !.annotation = a, !.image = m, !.managedBy = b]
  BY DEF Default, a
<1> HIDE DEF m
<1>5. b \in {j.managedBy : j \in Instances} \cup {"opentelemetry-operator"}
  BY DEF Instance
<1> HIDE DEF b
<1> QED
  BY <1>2, <1>3, <1>4, <1>5 DEF Instance

LEMMA DefaultFields ==
    ASSUME NEW i \in Instance, NEW v \in Nat
    PROVE  /\ \A l \in Language :
                 /\ Default(i, v).annotation[l] = IF i.annotation[l] = NoImage THEN <<l, v>>
                                                  ELSE i.annotation[l]
                 /\ Default(i, v).image[l] = IF i.image[l] = NoImage
                                             THEN Default(i, v).annotation[l] ELSE i.image[l]
           /\ Default(i, v).env = i.env /\ Default(i, v).langEnv = i.langEnv
BY DEF Default, Instance

\* What the upgrade writes, for an image that follows the operator and one that does not.
LEMMA UpgradedFields ==
    \A i \in Instance : \A v \in Nat :
        (\A l \in Language : i.annotation[l] # NoImage /\ i.image[l] # NoImage)
        => /\ Default(upgrade(i, v), v) \in Instance
           /\ \A l \in Language :
                 IF l \in Enabled /\ i.image[l] = i.annotation[l]
                 THEN /\ Default(upgrade(i, v), v).image[l] = DefaultAutoInst(v)[l]
                      /\ Default(upgrade(i, v), v).annotation[l] = DefaultAutoInst(v)[l]
                 ELSE /\ Default(upgrade(i, v), v).image[l] = i.image[l]
                      /\ Default(upgrade(i, v), v).annotation[l] = i.annotation[l]
           /\ Default(upgrade(i, v), v).env = i.env
           /\ Default(upgrade(i, v), v).langEnv = i.langEnv
<1>UpgradeType.
      ASSUME NEW i \in Instance, NEW v \in Nat
      PROVE  upgrade(i, v) \in Instance
  <2> USE <1>UpgradeType
  <2> DEFINE follows == {l \in Enabled : i.annotation[l] # NoImage /\ i.image[l] = i.annotation[l]}
             new(images) == [l \in Language |-> IF l \in follows THEN DefaultAutoInst(v)[l]
                                                ELSE images[l]]
  <2>1. \A l \in Language : DefaultAutoInst(v)[l] \in Image
    BY SMTT(30) DEF DefaultAutoInst, Image, Language
  <2> HIDE DEF follows
  <2>2. ASSUME NEW images \in [Language -> Image]
        PROVE  new(images) \in [Language -> Image]
    BY <2>1, <2>2
  <2>3. i.image \in [Language -> Image] /\ i.annotation \in [Language -> Image]
    BY DEF Instance
  <2>4. new(i.image) \in [Language -> Image] /\ new(i.annotation) \in [Language -> Image]
    BY <2>2, <2>3
  <2>5. upgrade(i, v) = [i EXCEPT !.image = new(i.image), !.annotation = new(i.annotation)]
    BY DEF upgrade, follows
  <2> HIDE DEF new
  <2> QED
    BY <2>4, <2>5 DEF Instance
<1>UpgradeFields.
      ASSUME NEW i \in Instance, NEW v \in Nat
      PROVE  /\ \A l \in Language :
                   IF l \in Enabled /\ i.annotation[l] # NoImage /\ i.image[l] = i.annotation[l]
                   THEN /\ upgrade(i, v).image[l] = DefaultAutoInst(v)[l]
                        /\ upgrade(i, v).annotation[l] = DefaultAutoInst(v)[l]
                   ELSE /\ upgrade(i, v).image[l] = i.image[l]
                        /\ upgrade(i, v).annotation[l] = i.annotation[l]
             /\ upgrade(i, v).env = i.env /\ upgrade(i, v).langEnv = i.langEnv
  <2> USE <1>UpgradeFields
  <2> HIDE DEF DefaultAutoInst
  <2> QED
    BY DEF upgrade, Instance
<1> SUFFICES ASSUME NEW i \in Instance, NEW v \in Nat,
                    \A l \in Language : i.annotation[l] # NoImage /\ i.image[l] # NoImage
             PROVE  /\ Default(upgrade(i, v), v) \in Instance
                    /\ \A l \in Language :
                          IF l \in Enabled /\ i.image[l] = i.annotation[l]
                          THEN /\ Default(upgrade(i, v), v).image[l] = DefaultAutoInst(v)[l]
                               /\ Default(upgrade(i, v), v).annotation[l] = DefaultAutoInst(v)[l]
                          ELSE /\ Default(upgrade(i, v), v).image[l] = i.image[l]
                               /\ Default(upgrade(i, v), v).annotation[l] = i.annotation[l]
                    /\ Default(upgrade(i, v), v).env = i.env
                    /\ Default(upgrade(i, v), v).langEnv = i.langEnv
  OBVIOUS
<1>1. upgrade(i, v) \in Instance
  BY <1>UpgradeType
<1>2. \A l \in Language : DefaultAutoInst(v)[l] # NoImage
  BY DEF DefaultAutoInst, NoImage, Language
<1>3. Default(upgrade(i, v), v) \in Instance
  BY <1>1, DefaultType
<1>4. ASSUME NEW l \in Language
      PROVE  IF l \in Enabled /\ i.image[l] = i.annotation[l]
             THEN /\ Default(upgrade(i, v), v).image[l] = DefaultAutoInst(v)[l]
                  /\ Default(upgrade(i, v), v).annotation[l] = DefaultAutoInst(v)[l]
             ELSE /\ Default(upgrade(i, v), v).image[l] = i.image[l]
                  /\ Default(upgrade(i, v), v).annotation[l] = i.annotation[l]
  <2> DEFINE u == upgrade(i, v)
             d == Default(u, v)
             auto == DefaultAutoInst(v)[l]
  <2>1. /\ d.annotation[l] = IF u.annotation[l] = NoImage THEN <<l, v>> ELSE u.annotation[l]
        /\ d.image[l] = IF u.image[l] = NoImage THEN d.annotation[l] ELSE u.image[l]
    BY <1>1, DefaultFields
  <2>2. IF l \in Enabled /\ i.annotation[l] # NoImage /\ i.image[l] = i.annotation[l]
        THEN u.image[l] = auto /\ u.annotation[l] = auto
        ELSE u.image[l] = i.image[l] /\ u.annotation[l] = i.annotation[l]
    BY <1>UpgradeFields
  <2>3. i.annotation[l] # NoImage /\ i.image[l] # NoImage /\ auto # NoImage
    BY <1>2
  <2> HIDE DEF u, d, auto
  <2>4. IF l \in Enabled /\ i.image[l] = i.annotation[l]
        THEN d.image[l] = auto /\ d.annotation[l] = auto
        ELSE d.image[l] = i.image[l] /\ d.annotation[l] = i.annotation[l]
    BY <2>1, <2>2, <2>3
  <2> QED
    BY <2>4 DEF u, d, auto
<1>5. /\ Default(upgrade(i, v), v).env = i.env
      /\ Default(upgrade(i, v), v).langEnv = i.langEnv
  BY <1>1, DefaultFields, <1>UpgradeFields, SMTT(30)
<1> QED
  BY <1>3, <1>4, <1>5

LEMMA InitImages ==
    Init => ImageInv
<1> SUFFICES ASSUME Init PROVE ImageInv
  OBVIOUS
<1>1. PICK specs \in InitialInstances :
        /\ instances = [n \in Name |-> IF specs[n] = Nil THEN Nil ELSE Default(specs[n], 1)]
        /\ chosen = UNION {Chosen(n, specs[n]) : n \in Name}
  BY DEF Init
<1>2. /\ version = 1 /\ upgrading = "done" /\ listed = None /\ dirty = {} /\ missed = {}
  BY DEF Init
<1>3. \A n \in Name : specs[n] \in Instances \cup {Nil}
  BY ObjectsAssumption
<1>4. Instances \subseteq Instance /\ Nil \notin Instance
  BY ObjectsAssumption
<1>5. \A n \in Name : /\ specs[n] = Nil => instances[n] = Nil
                      /\ specs[n] # Nil => instances[n] = Default(specs[n], 1)
  BY <1>1
<1>6. InstancesType
  <2>1. \A n \in Name : (IF specs[n] = Nil THEN Nil ELSE Default(specs[n], 1)) \in Instance \cup {Nil}
    BY <1>3, <1>4, DefaultType
  <2>2. instances \in [Name -> Instance \cup {Nil}]
    BY <1>1, <2>1
  <2>3. listed \in [Name -> Instance \cup {Nil}]
    BY <1>2 DEF None
  <2> QED
    BY <1>2, <2>2, <2>3 DEF InstancesType
<1>7. ASSUME NEW n \in Name, specs[n] # Nil, NEW l \in Language
      PROVE  /\ instances[n] # Nil
             /\ instances[n].annotation[l] = <<l, 1>>
             /\ specs[n].image[l] = NoImage => instances[n].image[l] = <<l, 1>>
             /\ specs[n].image[l] # NoImage =>
                   /\ instances[n].image[l] = specs[n].image[l]
                   /\ instances[n].image[l] \notin Language \X Nat
                   /\ <<n, l, instances[n].image[l]>> \in chosen
  <2>1. specs[n] \in Instances /\ specs[n] \in Instance /\ instances[n] = Default(specs[n], 1)
    BY <1>3, <1>4, <1>5, <1>7
  <2>2. specs[n].annotation[l] \in {NoImage, <<l, 1>>}
    BY <1>7, ImagesAssumption
  <2>3. specs[n].image[l] # NoImage => specs[n].image[l] \notin Language \X Nat
    BY <2>1, ImagesAssumption
  <2>4. /\ instances[n].annotation[l] = IF specs[n].annotation[l] = NoImage THEN <<l, 1>>
                                         ELSE specs[n].annotation[l]
        /\ instances[n].image[l] = IF specs[n].image[l] = NoImage THEN instances[n].annotation[l]
                                    ELSE specs[n].image[l]
    BY <2>1, DefaultFields, SMTT(30)
  <2>5. instances[n] \in Instance
    BY <2>1, DefaultType
  <2>6. specs[n].image[l] # NoImage => <<n, l, specs[n].image[l]>> \in Chosen(n, specs[n])
    BY <1>7 DEF Chosen
  <2> QED
    BY <1>1, <1>4, <2>2, <2>3, <2>4, <2>5, <2>6
<1>8. \A l \in Language : <<l, 1>> \in Language \X Nat /\ <<l, 1>> \notin {NoImage, <<"user", 1>>}
  BY DEF NoImage, Language
<1>9. ASSUME NEW n \in Name
      PROVE  Sound(n)
  <2> SUFFICES ASSUME instances[n] # Nil, NEW l \in Language
               PROVE  /\ instances[n].image[l] # NoImage
                      /\ instances[n].annotation[l] \notin {NoImage, <<"user", 1>>}
                      /\ \/ instances[n].image[l] = instances[n].annotation[l]
                         \/ <<n, l, instances[n].image[l]>> \in chosen
    BY DEF Sound
  <2>1. specs[n] # Nil
    BY <1>5
  <2>2. CASE specs[n].image[l] = NoImage
    <3>1. instances[n].annotation[l] = <<l, 1>> /\ instances[n].image[l] = <<l, 1>>
      BY <1>7, <2>1, <2>2
    <3> QED
      BY <1>8, <3>1
  <2>3. CASE specs[n].image[l] # NoImage
    <3>1. /\ instances[n].annotation[l] = <<l, 1>>
          /\ instances[n].image[l] = specs[n].image[l]
          /\ <<n, l, instances[n].image[l]>> \in chosen
      BY <1>7, <2>1, <2>3
    <3> QED
      BY <1>8, <2>3, <3>1
  <2> QED
    BY <2>2, <2>3
<1>10. ASSUME NEW c \in chosen
       PROVE  Stays(c)
  <2>1. PICK n \in Name : c \in Chosen(n, specs[n])
    BY <1>1
  <2>2. specs[n] # Nil
    BY <2>1 DEF Chosen
  <2>3. PICK l \in Language : specs[n].image[l] # NoImage /\ c = <<n, l, specs[n].image[l]>>
    BY <2>1, <2>2 DEF Chosen
  <2>4. /\ instances[n] # Nil /\ instances[n].annotation[l] = <<l, 1>>
        /\ instances[n].image[l] = specs[n].image[l]
        /\ instances[n].image[l] \notin Language \X Nat
    BY <1>7, <2>2, <2>3
  <2>5. instances[n].image[l] # instances[n].annotation[l]
    BY <1>8, <2>4
  <2> QED
    BY <2>3, <2>4, <2>5 DEF Stays
<1>11. ASSUME NEW n \in Name
       PROVE  Followed(n)
  <2> SUFFICES ASSUME instances[n] # Nil, NEW l \in Enabled \ {"go"},
                      instances[n].image[l] = instances[n].annotation[l]
               PROVE  instances[n].image[l] = <<l, version>>
    BY DEF Followed
  <2> QED
    <3>1. l \in Language /\ specs[n] # Nil
      BY <1>5, EnabledAssumption
    <3>2. instances[n].annotation[l] = <<l, 1>>
      BY <1>7, <3>1
    <3> QED
      BY <1>2, <3>2
<1> QED
  BY <1>2, <1>6, <1>9, <1>10, <1>11 DEF ImageInv

LEMMA StepImages ==
    ImageInv /\ [Next]_vars => ImageInv'
  \* Nothing but these steps changes the instances and what the upgrade knows of them.
<1>OtherSteps.
      ASSUME \/ CreatePod \/ UpdatePod \/ DeletePod \/ AnnotateNamespace \/ WriteCollector
             \/ UNCHANGED vars
      PROVE  UNCHANGED <<instances, listed, version, upgrading, dirty, missed, chosen>>
  BY <1>OtherSteps DEF CreatePod, UpdatePod, DeletePod, AnnotateNamespace, WriteCollector, vars, upgradeVars
  \* Writing an instance n leaves the others sound, and what was chosen for them.
<1>WriteImages.
      ASSUME ImageInv, NEW n \in Name, NEW new \in Instance \cup {Nil},
             instances' = [instances EXCEPT ![n] = new],
             \A c \in chosen : c[1] # n => c \in chosen',
             \A c \in chosen' : c \in chosen \/ c[1] = n
      PROVE  /\ instances' \in [Name -> Instance \cup {Nil}] /\ instances'[n] = new
             /\ \A m \in Name \ {n} : instances'[m] = instances[m] /\ Sound(m)'
             /\ \A c \in chosen' : c[1] # n => Stays(c)'
  <2> USE <1>WriteImages
  <2>1. instances \in [Name -> Instance \cup {Nil}]
    BY DEF ImageInv, InstancesType
  <2>2. /\ instances' \in [Name -> Instance \cup {Nil}] /\ instances'[n] = new
        /\ \A m \in Name \ {n} : instances'[m] = instances[m]
    BY <2>1
  <2>3. ASSUME NEW m \in Name \ {n}
        PROVE  Sound(m)'
    <3>1. Sound(m) /\ instances'[m] = instances[m]
      BY <2>2 DEF ImageInv
    <3>2. ASSUME NEW l \in Language, <<m, l, instances[m].image[l]>> \in chosen
          PROVE  <<m, l, instances[m].image[l]>> \in chosen'
      <4>1. <<m, l, instances[m].image[l]>>[1] # n
        OBVIOUS
      <4> QED
        BY <3>2, <4>1
    <3> QED
      BY <3>1, <3>2 DEF Sound
  <2>4. ASSUME NEW c \in chosen', c[1] # n
        PROVE  Stays(c)'
    <3>1. c \in chosen /\ Stays(c)
      BY <2>4 DEF ImageInv
    <3>2. PICK m \in Name, l \in Language :
              /\ instances[m] # Nil /\ c = <<m, l, instances[m].image[l]>>
              /\ instances[m].image[l] # instances[m].annotation[l]
      BY <3>1 DEF Stays
    <3>3. c[1] = m
      BY <3>2
    <3>4. instances'[m] = instances[m]
      BY <2>2, <2>4, <3>3
    <3>5. /\ instances'[m] # Nil /\ c = <<m, l, instances'[m].image[l]>>
          /\ instances'[m].image[l] # instances'[m].annotation[l]
      BY <3>2, <3>4
    <3> QED
      BY <3>5 DEF Stays
  <2> QED
    BY <2>2, <2>3, <2>4
<1>WriteInstanceImages. ImageInv /\ WriteInstance => ImageInv'
  <2> SUFFICES ASSUME ImageInv, WriteInstance PROVE ImageInv'
    OBVIOUS
  <2>1. PICK n \in Name, i \in Instances \cup {Nil} :
          /\ instances' = [instances EXCEPT ![n] = IF i = Nil THEN Nil ELSE Default(i, version)]
          /\ dirty' = dirty \cup {n}
          /\ chosen' = {c \in chosen : c[1] # n} \cup Chosen(n, i)
    BY DEF WriteInstance
  <2>2. /\ version' = version /\ upgrading' = upgrading /\ listed' = listed /\ missed' = missed
        /\ version \in Nat /\ listed \in [Name -> Instance \cup {Nil}]
    BY DEF WriteInstance, upgradeVars, ImageInv, InstancesType
  <2> DEFINE new == IF i = Nil THEN Nil ELSE Default(i, version)
  <2>3. Instances \subseteq Instance /\ Nil \notin Instance
    BY ObjectsAssumption
  <2>4. new \in Instance \cup {Nil} /\ (i # Nil => new = Default(i, version) /\ i \in Instance)
    BY <2>2, <2>3, DefaultType
  <2>5. \A c \in Chosen(n, i) : c[1] = n
    BY SMTT(30) DEF Chosen
  <2>6. /\ \A c \in chosen : c[1] # n => c \in chosen'
        /\ \A c \in chosen' : c \in chosen \/ c[1] = n
        /\ \A c \in chosen' : c[1] = n => c \in Chosen(n, i)
    BY <2>1, <2>5
  <2>7. /\ instances' \in [Name -> Instance \cup {Nil}] /\ instances'[n] = new
        /\ \A m \in Name \ {n} : instances'[m] = instances[m] /\ Sound(m)'
        /\ \A c \in chosen' : c[1] # n => Stays(c)'
    <3> HIDE DEF new
    <3>1. instances' = [instances EXCEPT ![n] = new]
      BY <2>1 DEF new
    <3> QED
      BY <2>4, <2>6, <3>1, <1>WriteImages
  <2> HIDE DEF new
  <2>8. ASSUME NEW l \in Language, i # Nil
        PROVE  /\ new.annotation[l] = IF i.annotation[l] = NoImage THEN <<l, version>>
                                       ELSE i.annotation[l]
               /\ new.image[l] = IF i.image[l] = NoImage THEN new.annotation[l] ELSE i.image[l]
               /\ i.image[l] # NoImage =>
                     /\ i.image[l] \notin {i.annotation[l]} \cup (Language \X Nat)
                     /\ <<n, l, i.image[l]>> \in chosen'
               /\ i.annotation[l] # <<"user", 1>>
    <3>1. i \in Instances
      BY <2>8
    <3>2. /\ new.annotation[l] = IF i.annotation[l] = NoImage THEN <<l, version>>
                                  ELSE i.annotation[l]
          /\ new.image[l] = IF i.image[l] = NoImage THEN new.annotation[l] ELSE i.image[l]
      <4>1. i \in Instance /\ new = Default(i, version)
        BY <2>4, <2>8
      <4> QED
        BY <2>2, <4>1, DefaultFields
    <3>3. /\ i.image[l] # NoImage => i.image[l] \notin {i.annotation[l]} \cup (Language \X Nat)
          /\ i.annotation[l] # <<"user", 1>>
      BY <3>1, ImagesAssumption
    <3>4. i.image[l] # NoImage => <<n, l, i.image[l]>> \in Chosen(n, i)
      BY <2>8 DEF Chosen
    <3> QED
      BY <2>1, <3>2, <3>3, <3>4
  <2>9. \A l \in Language : /\ <<l, version>> \in Language \X Nat
                            /\ <<l, version>> \notin {NoImage, <<"user", 1>>}
    BY <2>2 DEF NoImage, Language
  <2>10. Sound(n)'
    <3> SUFFICES ASSUME new # Nil, NEW l \in Language
                 PROVE  /\ new.image[l] # NoImage
                        /\ new.annotation[l] \notin {NoImage, <<"user", 1>>}
                        /\ \/ new.image[l] = new.annotation[l]
                           \/ <<n, l, new.image[l]>> \in chosen'
      BY <2>7 DEF Sound
    <3>1. i # Nil
      BY DEF new
    <3>2. new.annotation[l] \notin {NoImage, <<"user", 1>>}
      BY <2>8, <2>9, <3>1
    <3>3. CASE i.image[l] = NoImage
      BY <2>8, <3>1, <3>2, <3>3
    <3>4. CASE i.image[l] # NoImage
      BY <2>8, <3>1, <3>2, <3>4
    <3> QED
      BY <3>3, <3>4
  <2>11. ASSUME NEW c \in chosen', c[1] = n
         PROVE  Stays(c)'
    <3>1. c \in Chosen(n, i)
      BY <2>6, <2>11
    <3>2. i # Nil /\ new # Nil
      BY <2>3, <2>4, <3>1, DefaultType, <2>2 DEF Chosen
    <3>3. PICK l \in Language : i.image[l] # NoImage /\ c = <<n, l, i.image[l]>>
      BY <3>1, <3>2 DEF Chosen
    <3>4. new.image[l] = i.image[l]
      BY <2>8, <3>2, <3>3
    <3>5. new.image[l] # new.annotation[l]
      BY <2>8, <2>9, <3>2, <3>3, <3>4
    <3> QED
      BY <2>7, <3>2, <3>3, <3>4, <3>5 DEF Stays
  <2>12. ASSUME NEW m \in Name \ (dirty' \cup missed'), Followed(m)
         PROVE  Followed(m)'
    <3>1. instances'[m] = instances[m]
      BY <2>1, <2>7
    <3> QED
      BY <2>2, <2>12, <3>1 DEF Followed
  <2>13. upgrading' = "update" => \A m \in Name \ dirty' :
            listed'[m] # Nil => instances'[m] = listed'[m]
    BY <2>1, <2>2, <2>7 DEF ImageInv
  <2>14. \A m \in Name \ (dirty' \cup missed') :
            upgrading' = "done" \/ (upgrading' = "update" /\ listed'[m] = Nil) => Followed(m)'
    BY <2>1, <2>2, <2>12 DEF ImageInv
  <2> QED
    BY <2>2, <2>7, <2>10, <2>11, <2>13, <2>14 DEF ImageInv, InstancesType
<1>ChooseImageImages. ImageInv /\ ChooseImage => ImageInv'
  <2> SUFFICES ASSUME ImageInv, ChooseImage PROVE ImageInv'
    OBVIOUS
  <2>1. PICK n \in Name, l \in Language, image \in {NoImage, <<"user", 1>>} :
          /\ instances[n] # Nil
          /\ instances' = [instances EXCEPT ![n] =
                              Default([instances[n] EXCEPT !.image[l] = image], version)]
          /\ dirty' = dirty \cup {n}
          /\ chosen' = {c \in chosen : <<c[1], c[2]>> # <<n, l>>}
                           \cup ({<<n, l, image>>} \ {<<n, l, NoImage>>})
    BY DEF ChooseImage
  <2>2. /\ version' = version /\ upgrading' = upgrading /\ listed' = listed /\ missed' = missed
        /\ version \in Nat /\ listed \in [Name -> Instance \cup {Nil}]
        /\ instances \in [Name -> Instance \cup {Nil}]
    BY DEF ChooseImage, upgradeVars, ImageInv, InstancesType
  <2> DEFINE old == instances[n]
             new == Default([old EXCEPT !.image[l] = image], version)
  <2>3. old \in Instance /\ Nil \notin Instance /\ Sound(n)
    BY <2>1, <2>2, ObjectsAssumption DEF ImageInv
  <2>4. \A k \in Language : /\ old.annotation[k] \notin {NoImage, <<"user", 1>>}
                            /\ old.image[k] # NoImage
                            /\ old.image[k] = old.annotation[k] \/ <<n, k, old.image[k]>> \in chosen
    BY <2>1, <2>3 DEF Sound
  <2>5. /\ new \in Instance /\ new.annotation = old.annotation
        /\ new.image[l] = IF image = NoImage THEN old.annotation[l] ELSE image
        /\ \A k \in Language \ {l} : new.image[k] = old.image[k]
    <3> HIDE DEF old, new
    <3> DEFINE j == [old EXCEPT !.image[l] = image]
    <3>1. old.image \in [Language -> Image] /\ old.annotation \in [Language -> Image]
      BY <2>3 DEF Instance
    <3>2. image \in Image
      <4>1. <<"user", 1>> \in (Language \cup {"user"}) \X Nat
        OBVIOUS
      <4>2. NoImage \in Image /\ (Language \cup {"user"}) \X Nat \subseteq Image
        <5> DEFINE written == {i_.image[l_] : i_ \in Instances, l_ \in Language}
                                  \cup {i_.annotation[l_] : i_ \in Instances, l_ \in Language}
        <5>1. Image = written \cup {NoImage} \cup ((Language \cup {"user"}) \X Nat)
          BY SMTT(30) DEF Image
        <5> HIDE DEF written
        <5> QED
          BY <5>1
      <4> DEFINE u == <<"user", 1>>
      <4> HIDE DEF u
      <4>3. u \in Image /\ image \in {NoImage, u}
        BY <4>1, <4>2 DEF u
      <4> QED
        BY <4>2, <4>3
    <3>3. [old.image EXCEPT ![l] = image] \in [Language -> Image]
      BY <3>1, <3>2
    <3>4. j = [old EXCEPT !.image = [old.image EXCEPT ![l] = image]]
      BY <2>3 DEF Instance
    <3>5. j \in Instance
      BY <2>3, <3>3, <3>4 DEF Instance
    <3>6. /\ j.annotation = old.annotation
          /\ j.image[l] = image /\ \A k \in Language \ {l} : j.image[k] = old.image[k]
      BY <2>3, <3>1, <3>4 DEF Instance
    <3> HIDE DEF j
    <3>7. new \in Instance /\ new = Default(j, version)
      BY <2>2, <3>5, DefaultType DEF j, new
    <3>8. \A k \in Language :
             /\ new.annotation[k] = IF j.annotation[k] = NoImage THEN <<k, version>>
                                    ELSE j.annotation[k]
             /\ new.image[k] = IF j.image[k] = NoImage THEN new.annotation[k] ELSE j.image[k]
      BY <2>2, <3>5, <3>7, DefaultFields
    <3>9. new.annotation \in [Language -> Image]
      BY <3>7 DEF Instance
    <3>10. \A k \in Language : new.annotation[k] = old.annotation[k]
      BY <2>4, <3>6, <3>8
    <3>11. new.annotation = old.annotation
      BY <3>1, <3>9, <3>10, SMTT(30)
    <3>12. new.image[l] = IF image = NoImage THEN old.annotation[l] ELSE image
      BY <3>6, <3>8, <3>10
    <3>13. \A k \in Language \ {l} : new.image[k] = old.image[k]
      BY <2>4, <3>6, <3>8
    <3> QED
      BY <3>7, <3>11, <3>12, <3>13
  <2>6. /\ \A c \in chosen : <<c[1], c[2]>> # <<n, l>> => c \in chosen'
        /\ \A c \in chosen' : c \in chosen \/ c[1] = n
        /\ \A c \in chosen' : \/ c \in chosen /\ <<c[1], c[2]>> # <<n, l>>
                              \/ c = <<n, l, image>> /\ image # NoImage
        /\ image # NoImage => <<n, l, image>> \in chosen'
    BY <2>1, SMTT(30)
  <2>7. /\ instances' \in [Name -> Instance \cup {Nil}] /\ instances'[n] = new
        /\ \A m \in Name \ {n} : instances'[m] = instances[m] /\ Sound(m)'
        /\ \A c \in chosen' : c[1] # n => Stays(c)'
    <3> HIDE DEF new
    <3>1. instances' = [instances EXCEPT ![n] = new]
      BY <2>1 DEF new
    <3>2. \A c \in chosen : c[1] # n => c \in chosen'
      BY <2>6
    <3>3. \A c \in chosen' : c \in chosen \/ c[1] = n
      BY <2>6
    <3>4. new \in Instance \cup {Nil}
      BY <2>5
    <3> QED
      BY <3>1, <3>2, <3>3, <3>4, <1>WriteImages
  <2> HIDE DEF new, old
  <2>8. <<"user", 1>> # NoImage
    BY DEF NoImage
  <2>9. Sound(n)'
    <3> SUFFICES ASSUME NEW k \in Language
                 PROVE  /\ new.image[k] # NoImage
                        /\ new.annotation[k] \notin {NoImage, <<"user", 1>>}
                        /\ \/ new.image[k] = new.annotation[k]
                           \/ <<n, k, new.image[k]>> \in chosen'
      BY <2>7 DEF Sound
    <3>1. new.annotation[k] = old.annotation[k]
      BY <2>5
    <3>2. CASE k = l
      BY <2>4, <2>5, <2>6, <2>8, <3>1, <3>2
    <3>3. CASE k # l
      <4>1. new.image[k] = old.image[k]
        BY <2>5, <3>3
      <4>2. <<n, k, old.image[k]>> \in chosen => <<n, k, old.image[k]>> \in chosen'
        <5>1. <<<<n, k, old.image[k]>>[1], <<n, k, old.image[k]>>[2]>> # <<n, l>>
          BY <3>3
        <5> QED
          BY <2>6, <5>1
      <4> QED
        BY <2>4, <3>1, <4>1, <4>2
    <3> QED
      BY <3>2, <3>3
  <2>10. ASSUME NEW c \in chosen', c[1] = n
         PROVE  Stays(c)'
    <3>1. PICK k \in Language : c = <<n, k, new.image[k]>> /\ new.image[k] # new.annotation[k]
      <4>1. CASE c \in chosen /\ <<c[1], c[2]>> # <<n, l>>
        <5>1. Stays(c)
          BY <4>1 DEF ImageInv
        <5>2. PICK m \in Name, k \in Language :
                  /\ instances[m] # Nil /\ c = <<m, k, instances[m].image[k]>>
                  /\ instances[m].image[k] # instances[m].annotation[k]
          BY <5>1 DEF Stays
        <5>3. m = n /\ k # l /\ instances[m] = old
          BY <2>10, <4>1, <5>2 DEF old
        <5> QED
          BY <2>5, <5>2, <5>3
      <4>2. CASE c = <<n, l, image>> /\ image # NoImage
        BY <2>4, <2>5, <4>2
      <4> QED
        BY <2>6, <4>1, <4>2
    <3>2. instances'[n] = new /\ new # Nil
      BY <2>3, <2>5, <2>7
    <3>3. /\ instances'[n] # Nil /\ c = <<n, k, instances'[n].image[k]>>
          /\ instances'[n].image[k] # instances'[n].annotation[k]
      BY <3>1, <3>2
    <3> QED
      BY <3>3 DEF Stays
  <2>11. ASSUME NEW m \in Name \ (dirty' \cup missed'), Followed(m)
         PROVE  Followed(m)'
    <3>1. instances'[m] = instances[m]
      BY <2>1, <2>7
    <3> QED
      BY <2>2, <2>11, <3>1 DEF Followed
  <2>12. upgrading' = "update" => \A m \in Name \ dirty' :
            listed'[m] # Nil => instances'[m] = listed'[m]
    BY <2>1, <2>2, <2>7 DEF ImageInv
  <2>13. \A m \in Name \ (dirty' \cup missed') :
            upgrading' = "done" \/ (upgrading' = "update" /\ listed'[m] = Nil) => Followed(m)'
    BY <2>1, <2>2, <2>11 DEF ImageInv
  <2> QED
    BY <2>2, <2>7, <2>9, <2>10, <2>12, <2>13 DEF ImageInv, InstancesType
<1>UpdateImages.
      ASSUME ImageInv, NEW n \in Name, Update(n)
      PROVE  ImageInv'
  <2> USE <1>UpdateImages
  <2>1. /\ version' = version /\ upgrading' = upgrading /\ dirty' = dirty /\ chosen' = chosen
        /\ version \in Nat /\ listed \in [Name -> Instance \cup {Nil}]
        /\ instances \in [Name -> Instance \cup {Nil}]
        /\ upgrading = "update" /\ listed[n] # Nil /\ listed' = [listed EXCEPT ![n] = Nil]
    BY DEF Update, ImageInv, InstancesType
  <2>2. /\ listed' \in [Name -> Instance \cup {Nil}] /\ listed'[n] = Nil
        /\ \A m \in Name \ {n} : listed'[m] = listed[m]
    BY <2>1
  <2>3. CASE n \in dirty
    <3>1. instances' = instances /\ missed' = missed \cup {n}
      BY <2>3 DEF Update
    <3>2. \A m \in Name : Sound(m)' /\ (Followed(m) => Followed(m)')
      BY <2>1, <3>1 DEF Sound, Followed, ImageInv
    <3>3. \A c \in chosen' : Stays(c)'
      BY <2>1, <3>1 DEF Stays, ImageInv
    <3>4. \A m \in Name \ dirty' : listed'[m] # Nil => instances'[m] = listed'[m]
      BY <2>1, <2>2, <3>1 DEF ImageInv
    <3>5. \A m \in Name \ (dirty' \cup missed') : listed'[m] = Nil => Followed(m)'
      BY <2>1, <2>2, <3>1, <3>2 DEF ImageInv
    <3> QED
      BY <2>1, <2>2, <3>1, <3>2, <3>3, <3>4, <3>5 DEF ImageInv, InstancesType
  <2>4. CASE n \notin dirty
    <3> DEFINE old == instances[n]
               new == Default(upgrade(old, version), version)
    <3>1. old = listed[n] /\ old # Nil /\ old \in Instance /\ Sound(n)
      BY <2>1, <2>4 DEF ImageInv
    <3>2. instances' = [instances EXCEPT ![n] = new] /\ missed' = missed
      BY <2>4, <3>1 DEF Update
    <3>3. \A k \in Language : /\ old.annotation[k] \notin {NoImage, <<"user", 1>>}
                              /\ old.image[k] # NoImage
                              /\ \/ old.image[k] = old.annotation[k]
                                 \/ <<n, k, old.image[k]>> \in chosen
      BY <3>1 DEF Sound
    <3>4. /\ new \in Instance
          /\ \A k \in Language :
                IF k \in Enabled /\ old.image[k] = old.annotation[k]
                THEN /\ new.image[k] = DefaultAutoInst(version)[k]
                     /\ new.annotation[k] = DefaultAutoInst(version)[k]
                ELSE new.image[k] = old.image[k] /\ new.annotation[k] = old.annotation[k]
      <4> HIDE DEF old
      <4> QED
        BY <2>1, <3>1, <3>3, UpgradedFields
    <3> HIDE DEF new
    <3>5. /\ instances' \in [Name -> Instance \cup {Nil}] /\ instances'[n] = new
          /\ \A m \in Name \ {n} : instances'[m] = instances[m] /\ Sound(m)'
          /\ \A c \in chosen' : c[1] # n => Stays(c)'
      <4>1. \A c \in chosen : c[1] # n => c \in chosen'
        BY <2>1
      <4>2. \A c \in chosen' : c \in chosen \/ c[1] = n
        BY <2>1
      <4>3. new \in Instance \cup {Nil}
        BY <3>4
      <4> QED
        BY <3>2, <4>1, <4>2, <4>3, <1>WriteImages
    <3> HIDE DEF old
    <3>6. \A k \in Language : DefaultAutoInst(version)[k] \notin {NoImage, <<"user", 1>>}
      BY <2>1 DEF DefaultAutoInst, NoImage, Language
    <3>7. Sound(n)'
      <4> SUFFICES ASSUME NEW k \in Language
                   PROVE  /\ new.image[k] # NoImage
                          /\ new.annotation[k] \notin {NoImage, <<"user", 1>>}
                          /\ \/ new.image[k] = new.annotation[k]
                             \/ <<n, k, new.image[k]>> \in chosen'
        BY <3>5 DEF Sound
      <4> QED
        BY <2>1, <3>3, <3>4, <3>6
    <3>8. ASSUME NEW c \in chosen', c[1] = n
          PROVE  Stays(c)'
      <4>1. Stays(c)
        BY <2>1 DEF ImageInv
      <4>2. PICK m \in Name, k \in Language :
                /\ instances[m] # Nil /\ c = <<m, k, instances[m].image[k]>>
                /\ instances[m].image[k] # instances[m].annotation[k]
        BY <4>1 DEF Stays
      <4>3. m = n /\ instances[m] = old
        BY <3>8, <4>2 DEF old
      <4>4. new.image[k] = old.image[k] /\ new.annotation[k] = old.annotation[k] /\ new # Nil
        BY <3>4, <4>2, <4>3, ObjectsAssumption
      <4>5. /\ instances'[n] # Nil /\ c = <<n, k, instances'[n].image[k]>>
            /\ instances'[n].image[k] # instances'[n].annotation[k]
        BY <3>5, <4>2, <4>3, <4>4
      <4> QED
        BY <4>5 DEF Stays
    <3>9. Followed(n)'
      <4> SUFFICES ASSUME NEW k \in Enabled \ {"go"}, new.image[k] = new.annotation[k]
                   PROVE  new.image[k] = <<k, version>>
        BY <2>1, <3>5 DEF Followed
      <4>1. k \in Language
        BY EnabledAssumption
      <4>2. old.image[k] = old.annotation[k]
        BY <3>4, <4>1
      <4>3. DefaultAutoInst(version)[k] = <<k, version>>
        BY <4>1 DEF DefaultAutoInst
      <4> QED
        BY <3>4, <4>1, <4>2, <4>3
    <3>10. \A m \in Name \ {n} : Followed(m) => Followed(m)'
      BY <2>1, <3>5 DEF Followed
    <3>11. \A m \in Name \ dirty' : listed'[m] # Nil => instances'[m] = listed'[m]
      BY <2>1, <2>2, <3>5 DEF ImageInv
    <3>12. \A m \in Name \ (dirty' \cup missed') : listed'[m] = Nil => Followed(m)'
      BY <2>1, <2>2, <3>2, <3>9, <3>10 DEF ImageInv
    <3> QED
      BY <2>1, <2>2, <3>5, <3>7, <3>8, <3>11, <3>12 DEF ImageInv, InstancesType
  <2> QED
    BY <2>3, <2>4
<1> SUFFICES ASSUME ImageInv, [Next]_vars PROVE ImageInv'
  OBVIOUS
<1>1. ASSUME UNCHANGED <<instances, version, chosen>>
      PROVE  /\ \A n \in Name : Sound(n)' /\ (Followed(n) => Followed(n)')
             /\ \A c \in chosen' : Stays(c)'
  <2>1. \A n \in Name : Sound(n)' /\ (Followed(n) => Followed(n)')
    BY <1>1 DEF Sound, Followed, ImageInv
  <2>2. \A c \in chosen' : Stays(c)'
    BY <1>1 DEF Stays, ImageInv
  <2> QED
    BY <2>1, <2>2
<1>2. CASE \/ CreatePod \/ UpdatePod \/ DeletePod \/ AnnotateNamespace \/ WriteCollector
           \/ UNCHANGED vars
  <2>1. UNCHANGED <<instances, listed, version, upgrading, dirty, missed, chosen>>
    BY <1>2, <1>OtherSteps
  <2> QED
    BY <1>1, <2>1 DEF ImageInv, InstancesType
<1>3. CASE Restart
  <2>1. /\ UNCHANGED <<instances, dirty, missed, chosen>>
        /\ version' \in Nat /\ upgrading' = "list" /\ listed' = None
    BY <1>3, ObjectsAssumption, SMTT(30) DEF Restart
  <2>2. \A n \in Name : Sound(n)'
    BY <2>1 DEF Sound, ImageInv
  <2>3. \A c \in chosen' : Stays(c)'
    BY <2>1 DEF Stays, ImageInv
  <2>4. listed' \in [Name -> Instance \cup {Nil}]
    BY <2>1 DEF None
  <2> QED
    BY <2>1, <2>2, <2>3, <2>4 DEF ImageInv, InstancesType
<1>4. CASE List
  <2>1. /\ UNCHANGED <<instances, version, chosen>> /\ upgrading' = "update" /\ missed' = {}
        /\ listed' = [n \in Name |-> IF /\ instances[n] # Nil
                                        /\ instances[n].managedBy = "opentelemetry-operator"
                                     THEN instances[n] ELSE Nil]
    BY <1>4 DEF List
  <2>2. \A n \in Name : /\ listed'[n] # Nil => instances'[n] = listed'[n]
                        /\ listed'[n] = Nil => Followed(n)'
    BY <2>1 DEF Followed
  <2>3. instances \in [Name -> Instance \cup {Nil}] /\ version \in Nat
    BY DEF ImageInv, InstancesType
  <2>4. listed' \in [Name -> Instance \cup {Nil}]
    BY <2>1, <2>3
  <2> QED
    BY <1>1, <2>1, <2>2, <2>3, <2>4 DEF ImageInv, InstancesType
<1>5. CASE Done
  <2>1. /\ UNCHANGED <<instances, version, chosen, listed, dirty, missed>>
        /\ upgrading = "update" /\ upgrading' = "done" /\ \A n \in Name : listed[n] = Nil
    BY <1>5 DEF Done, None
  <2> QED
    BY <1>1, <2>1 DEF ImageInv, InstancesType
<1>6. ASSUME NEW n \in Name, UpdateFails(n)
      PROVE  ImageInv'
  <2>1. /\ UNCHANGED <<instances, version, chosen, dirty, upgrading>>
        /\ upgrading = "update" /\ missed' = missed \cup {n}
        /\ listed' = [listed EXCEPT ![n] = Nil]
        /\ listed \in [Name -> Instance \cup {Nil}]
    BY <1>6 DEF UpdateFails, ImageInv, InstancesType
  <2>2. /\ listed' \in [Name -> Instance \cup {Nil}] /\ listed'[n] = Nil
        /\ \A m \in Name \ {n} : listed'[m] = listed[m]
    BY <2>1
  <2> QED
    BY <1>1, <2>1, <2>2 DEF ImageInv, InstancesType
<1>7. CASE \E n \in Name : Update(n)
  BY <1>7, <1>UpdateImages
<1>8. CASE WriteInstance \/ ChooseImage
  BY <1>8, <1>WriteInstanceImages, <1>ChooseImageImages
<1> QED
  BY <1>2, <1>3, <1>4, <1>5, <1>6, <1>7, <1>8 DEF Next

\* What the upgrade keeps of the images, and what it makes of them, whatever the users
\* and other operators do at the same time (upgrade.go, ManagedInstances).
THEOREM ImageInvariant == Spec => []ImageInv
<1>1. Init => ImageInv
  BY InitImages
<1>2. ImageInv /\ [Next]_vars => ImageInv'
  BY StepImages
<1> QED
  BY <1>1, <1>2, PTL DEF Spec

\* No upgrade and no default replaces an image that a user has chosen, for any number
\* of instances, changes, restarts and versions (upgrade.go, upgrade).
THEOREM ImagesStay == Spec => []ChosenImagesStay
<1>1. ImageInv => ChosenImagesStay
  <2> SUFFICES ASSUME ImageInv, NEW c \in chosen
               PROVE  instances[c[1]].image[c[2]] = c[3]
    BY DEF ChosenImagesStay
  <2>1. Stays(c)
    BY DEF ImageInv
  <2>2. PICK n \in Name, l \in Language : c = <<n, l, instances[n].image[l]>>
    BY <2>1 DEF Stays
  <2> QED
    BY <2>2
<1> QED
  BY <1>1, ImageInvariant, PTL

\* When an upgrade is over, the images that follow the operator are those of its version,
\* in every instance that it manages and that was not written meanwhile (upgrade.go,
\* ManagedInstances).
THEOREM ImagesFollow == Spec => []DefaultImagesFollow
<1>1. ImageInv => DefaultImagesFollow
  <2> SUFFICES ASSUME ImageInv, upgrading = "done", NEW n \in Name \ (dirty \cup missed),
                      NEW l \in Enabled \ {"go"}, instances[n] # Nil,
                      instances[n].managedBy = "opentelemetry-operator",
                      \A c \in chosen : <<c[1], c[2]>> # <<n, l>>
               PROVE  instances[n].image[l] = <<l, version>>
    BY DEF DefaultImagesFollow
  <2>1. Sound(n) /\ Followed(n) /\ l \in Language
    BY EnabledAssumption DEF ImageInv
  <2>2. <<n, l, instances[n].image[l]>> \notin chosen
    OBVIOUS
  <2>3. instances[n].image[l] = instances[n].annotation[l]
    BY <2>1, <2>2 DEF Sound
  <2> QED
    BY <2>1, <2>3 DEF Followed
<1> QED
  BY <1>1, ImageInvariant, PTL

-----------------------------------------------------------------------------
(* The mutator of the sidecar.                                             *)

LEMMA OwnEnv ==
    ASSUME NEW references, NEW e, e = getResourceAttributesEnv(references)
    PROVE  /\ IsEnv(e) /\ Len(e) = 4 /\ e[4] = Var(ORA, OwnAttributes(references))
           /\ \A i \in 1..3 : e[i] = FieldRef(Downward[i].var)
<1> DEFINE f == [d \in DOMAIN Downward |-> FieldRef(Downward[d].var)]
           x == Var(ORA, OwnAttributes(references))
<1>1. DOMAIN Downward = 1..3
  BY SMTT(30) DEF Downward
<1>2. e = Append(f, x)
  BY DEF getResourceAttributesEnv, OwnAttributes, ORA
<1>3. f = [i \in 1..3 |-> f[i]] /\ \A i \in 1..3 : f[i] = FieldRef(Downward[i].var)
  BY <1>1
<1> HIDE DEF f
<1>4. IsSeq(f) /\ Len(f) = 3
  BY <1>3, FunctionSeq
<1>5. IsEnv(f)
  <2>1. \A i \in 1..Len(f) : IsVar(f[i])
    BY <1>3, <1>4, SMTT(30) DEF FieldRef, IsVar
  <2> QED
    BY <1>4, <2>1, IsEnvOf
<1>6. IsVar(x)
  BY VarIsVar
<1> HIDE DEF x
<1>7. Added(f, e, {x}) /\ Len(e) = Len(f) + 1 /\ e[Len(f) + 1] = x
  BY <1>2, <1>5, <1>6, AppendEnv
<1> QED
  BY <1>3, <1>4, <1>7, SMTT(30) DEF Added, x

LEMMA SidecarIsContainer ==
    \A col, e, ports :
        CollectorOK(col) /\ IsEnv(e)
        => /\ IsContainer(SidecarContainer(col, e, ports)) /\ IsEnv(SidecarEnv(col, e))
           /\ SidecarContainer(col, e, ports).name = ContainerName
           /\ SidecarContainer(col, e, ports).agent = Nil
           /\ SidecarContainer(col, e, ports).env = SidecarEnv(col, e)
           /\ SidecarContainer(col, e, ports).mounts = col.mounts
           /\ SidecarContainer(col, e, ports).ports = Override(ports, col.ports)
<1>OwnConfigEnv.
      ASSUME NEW col, CollectorOK(col)
      PROVE  /\ IsEnv(OwnConfig(col)) /\ Len(OwnConfig(col)) = Len(col.env) + 2
             /\ \A i \in 1..Len(col.env) : OwnConfig(col)[i] = col.env[i]
             /\ OwnConfig(col)[Len(col.env) + 1] = FieldRef("POD_NAME")
             /\ OwnConfig(col)[Len(col.env) + 2] = Var("OTEL_CONFIG", {})
  <2> USE <1>OwnConfigEnv
  <2> DEFINE a == col.env
             f == FieldRef("POD_NAME")
             g == Var("OTEL_CONFIG", {})
             b == Append(a, f)
             c == Append(b, g)
  <2>1. IsEnv(a) /\ Len(a) \in Nat
    BY EnvVars DEF CollectorOK
  <2>2. IsVar(f) /\ IsVar(g)
    BY VarIsVar
  <2> HIDE DEF f, g
  <2>3. Added(a, b, {f}) /\ Len(b) = Len(a) + 1 /\ b[Len(a) + 1] = f
    BY <2>1, <2>2, AppendEnv
  <2>4. IsEnv(b)
    BY <2>3 DEF Added
  <2> HIDE DEF b
  <2>5. Added(b, c, {g}) /\ Len(c) = Len(b) + 1 /\ c[Len(b) + 1] = g
    BY <2>2, <2>4, AppendEnv
  <2> HIDE DEF c
  <2>6. /\ IsEnv(c) /\ Len(c) = Len(a) + 2 /\ c[Len(a) + 1] = f /\ c[Len(a) + 2] = g
        /\ \A i \in 1..Len(a) : c[i] = a[i]
    BY <2>1, <2>3, <2>5, SMTT(30) DEF Added
  <2>7. OwnConfig(col) = c
    BY DEF OwnConfig, b, c, f, g
  <2> QED
    BY <2>6, <2>7 DEF f, g
<1> SUFFICES ASSUME NEW col, CollectorOK(col), NEW e, IsEnv(e), NEW ports
             PROVE  /\ IsContainer(SidecarContainer(col, e, ports)) /\ IsEnv(SidecarEnv(col, e))
                    /\ SidecarContainer(col, e, ports).name = ContainerName
                    /\ SidecarContainer(col, e, ports).agent = Nil
                    /\ SidecarContainer(col, e, ports).env = SidecarEnv(col, e)
                    /\ SidecarContainer(col, e, ports).mounts = col.mounts
                    /\ SidecarContainer(col, e, ports).ports = Override(ports, col.ports)
  OBVIOUS
<1>1. IsEnv(OwnConfig(col))
  BY <1>OwnConfigEnv
<1>2. IsEnv(OwnConfig(col) \o e)
  <2> DEFINE a == OwnConfig(col)
             r == a \o e
  <2>1. /\ IsSeq(a) /\ IsSeq(e) /\ Len(a) \in Nat /\ Len(e) \in Nat
        /\ \A i \in 1..Len(a) : IsVar(a[i])
        /\ \A i \in 1..Len(e) : IsVar(e[i])
    BY <1>1, EnvVars
  <2> HIDE DEF a
  <2>2. /\ IsSeq(r) /\ Len(r) = Len(a) + Len(e)
        /\ \A i \in 1..Len(a) : r[i] = a[i]
        /\ \A i \in 1..Len(e) : r[Len(a) + i] = e[i]
    BY <2>1, ConcatSeq, SMTT(30)
  <2> HIDE DEF r
  <2>3. ASSUME NEW i \in 1..Len(r)
        PROVE  IsVar(r[i])
    <3>1. CASE i \in 1..Len(a)
      BY <2>1, <2>2, <3>1
    <3>2. CASE i \notin 1..Len(a)
      <4>1. i - Len(a) \in 1..Len(e) /\ i = Len(a) + (i - Len(a))
        BY <2>1, <2>2, <3>2, SMTT(30)
      <4> QED
        BY <2>1, <2>2, <4>1
    <3> QED
      BY <3>1, <3>2
  <2>4. IsEnv(r)
    BY <2>2, <2>3, IsEnvOf
  <2> QED
    BY <2>4 DEF a, r
<1>3. IsEnv(SidecarEnv(col, e))
  BY <1>1, <1>2 DEF SidecarEnv
<1>4. /\ DOMAIN SidecarContainer(col, e, ports)
            = {"name", "agent", "env", "mounts", "probe", "ports"}
      /\ SidecarContainer(col, e, ports).name = ContainerName
      /\ SidecarContainer(col, e, ports).agent = Nil
      /\ SidecarContainer(col, e, ports).env = SidecarEnv(col, e)
      /\ SidecarContainer(col, e, ports).mounts = col.mounts
      /\ SidecarContainer(col, e, ports).ports = Override(ports, col.ports)
  BY DEF SidecarContainer
<1> QED
  BY <1>3, <1>4 DEF IsContainer, CollectorOK

-----------------------------------------------------------------------------
(* The mutator of the instrumentation, and both of them.                   *)

LEMMA InstMutate ==
    ASSUME NEW space, NEW p, NEW stored, NEW local, NEW found,
           NEW second, second = instMutate(space, p, stored, local, found)
    PROVE  InstCases(space, p, stored, local, found, second)
<1> DEFINE wanted == {l \in Languages : Wanted(space, p, l)}
           x == Insts(space, p, stored, local)
<1>1. second = IF isAutoInstrumentationInjected(p) THEN Result(TRUE, p)
               ELSE IF \E l \in wanted : ~Single(Candidates(space, p, l, stored, local))
               THEN Result(FALSE, p)
               ELSE IF \A l \in Languages : x[l] = Nil THEN Result(TRUE, p)
               ELSE Result(TRUE, InjectAll(x, p, ContainerNames(space, p), found))
  BY DEF instMutate, Insts, Languages
<1>2. (\E l \in wanted : ~Single(Candidates(space, p, l, stored, local)))
        <=> Unselectable(space, p, stored, local)
  BY DEF Unselectable
<1>3. (\A l \in Languages : x[l] = Nil) <=> NoInsts(x)
  BY DEF NoInsts
<1> HIDE DEF wanted, x
<1>4. CASE isAutoInstrumentationInjected(p)
  BY <1>1, <1>4 DEF InstCases
<1>5. CASE ~isAutoInstrumentationInjected(p) /\ Unselectable(space, p, stored, local)
  BY <1>1, <1>2, <1>5 DEF InstCases
<1>6. CASE /\ ~isAutoInstrumentationInjected(p) /\ ~Unselectable(space, p, stored, local)
           /\ NoInsts(x)
  BY <1>1, <1>2, <1>3, <1>6 DEF x, InstCases
<1>7. CASE /\ ~isAutoInstrumentationInjected(p) /\ ~Unselectable(space, p, stored, local)
           /\ ~NoInsts(x)
  BY <1>1, <1>2, <1>3, <1>7 DEF x, InstCases
<1> QED
  BY <1>4, <1>5, <1>6, <1>7

LEMMA InstsAre ==
    ASSUME NEW space, NEW p, NEW stored, NEW local, ~Unselectable(space, p, stored, local),
           NEW l \in Languages, NEW x, x = Insts(space, p, stored, local)
    PROVE  InstIs(space, p, stored, l, x[l])
<1> DEFINE m == CHOOSE n \in Candidates(space, p, l, stored, local) : TRUE
<1>1. x[l] = IF l \notin {k \in Languages : Wanted(space, p, k)} \/ l \notin Enabled \cup {"sdk"} THEN Nil
             ELSE stored[m]
  BY DEF Insts
<1>2. CASE Wanted(space, p, l) /\ l \in Enabled \cup {"sdk"}
  <2>1. x[l] = stored[m]
    BY <1>1, <1>2
  <2>2. Single(Candidates(space, p, l, stored, local))
    BY <1>2 DEF Unselectable
  <2>3. m \in Candidates(space, p, l, stored, local)
    BY <2>2 DEF Single
  <2> HIDE DEF m
  <2>4. m \in {n \in DOMAIN stored : stored[n] # Nil}
    BY <2>3 DEF Candidates
  <2> QED
    BY <1>2, <2>1, <2>4 DEF InstIs
<1>3. CASE ~(Wanted(space, p, l) /\ l \in Enabled \cup {"sdk"})
  BY <1>1, <1>3 DEF InstIs
<1> QED
  BY <1>2, <1>3

LEMMA InstsAreOK ==
    ASSUME NEW space, NEW p, NEW stored, InstancesOK(stored), NEW local,
           ~Unselectable(space, p, stored, local)
    PROVE  InstsOK(Insts(space, p, stored, local))
<1> DEFINE x == Insts(space, p, stored, local)
<1>1. ASSUME NEW l \in Languages
      PROVE  x[l] = Nil \/ \E n \in DOMAIN stored : stored[n] # Nil /\ stored[n] = x[l]
  <2> HIDE DEF x
  <2>1. x = Insts(space, p, stored, local)
    BY DEF x
  <2>2. InstIs(space, p, stored, l, x[l])
    BY <2>1, InstsAre
  <2> QED
    BY <2>2 DEF InstIs
<1> HIDE DEF x
<1>2. \A l \in Languages : x[l] = Nil \/ IsInst(x[l])
  BY <1>1 DEF InstancesOK
<1>3. InstsOK(x)
  BY <1>2 DEF InstsOK, Languages
<1> QED
  BY <1>3 DEF x

LEMMA NamesSeq ==
    ASSUME NEW space, NEW p, NamesOK(space, p), NEW v, v = ContainerNames(space, p)
    PROVE  /\ IsSeq(v) /\ Len(v) \in Nat /\ DOMAIN v = 1..Len(v) /\ Len(v) # 0
<1> DEFINE names == IF p.containerNames = <<>> THEN space.containerNames ELSE p.containerNames
<1>1. v = IF names = <<>> THEN NoName ELSE names
  BY DEF ContainerNames, NoName
<1>2. IsSeq(names)
  BY DEF NamesOK
<1>3. IsSeq(NoName) /\ Len(NoName) = 1
  BY OneSeq DEF NoName
<1> HIDE DEF names
<1>4. IsSeq(v)
  BY <1>1, <1>2, <1>3
<1>5. Len(v) \in Nat /\ DOMAIN v = 1..Len(v)
  BY <1>4, SeqDomain
<1>6. Len(v) # 0
  <2>1. CASE names = <<>>
    BY <1>1, <1>3, <2>1, SMTT(30)
  <2>2. CASE names # <<>>
    BY <1>1, <1>2, <2>2, SMTT(30) DEF IsSeq
  <2> QED
    BY <2>1, <2>2
<1> QED
  BY <1>4, <1>5, <1>6

LEMMA GrownInst ==
    ASSUME NEW space, NEW p, IsPod(p), NamesOK(space, p), NEW stored, InstancesOK(stored),
           NEW local, NEW found, NEW second, second = instMutate(space, p, stored, local, found)
    PROVE  Grown(p, second.pod)
<1>1. CASE second.pod = p
  BY <1>1, GrownSelf
<1>2. CASE /\ ~Unselectable(space, p, stored, local)
           /\ second = Result(TRUE, InjectAll(Insts(space, p, stored, local), p,
                                              ContainerNames(space, p), found))
  <2> DEFINE v == ContainerNames(space, p)
             n == Len(v)
             x == Insts(space, p, stored, local)
  <2>1. n \in Nat /\ DOMAIN v = 1..n
    BY NamesSeq
  <2>2. InstsOK(x)
    BY <1>2, InstsAreOK
  <2>3. second.pod = InjectAll(x, p, v, found)
    BY <1>2, SMTT(30) DEF Result
  <2> HIDE DEF v, n, x
  <2> QED
    BY <2>1, <2>2, <2>3, GrownAll
<1>3. Result(TRUE, p).pod = p /\ Result(FALSE, p).pod = p
  BY DEF Result
<1>4. InstCases(space, p, stored, local, found, second)
  BY InstMutate
<1> QED
  BY <1>1, <1>2, <1>3, <1>4 DEF InstCases

LEMMA SidecarDoes ==
    \A space, p, deployed, found : \A first \in sidecarMutate(space, p, deployed, found) :
        IsPod(p) /\ CollectorsOK(deployed)
        => SidecarDone(space, p, deployed, found, first)
<1>KeepRun.
      ASSUME NEW v, NEW n \in Nat, DOMAIN v = 1..n
      PROVE  \E F : KeepsRun(F, v, n)
  <2> USE <1>KeepRun
  <2> DEFINE Step(f, s) == IF s = {} THEN <<>> ELSE Keep(f[s \ {Max(s)}], v[Max(s)])
             Iter(k, f) == f = [s \in SUBSET (1..k) |-> Step(f, s)]
             P == {k \in Nat : \E f : Iter(k, f)}
  <2>1. 0 \in P
    <3>1. Iter(0, [s \in SUBSET (1..0) |-> <<>>])
      BY SMTT(30)
    <3> HIDE DEF Iter
    <3> QED
      BY <3>1
  <2>2. ASSUME NEW k \in Nat, k \in P
        PROVE  k + 1 \in P
    <3>1. PICK f : Iter(k, f)
      BY <2>2
    <3>2. \A s \in SUBSET (1..k) : f[s] = Step(f, s)
      BY <3>1
    <3> DEFINE g == [s \in SUBSET (1..(k + 1)) |->
                        IF k + 1 \in s THEN Keep(f[s \ {k + 1}], v[k + 1]) ELSE f[s]]
    <3>3. ASSUME NEW s \in SUBSET (1..(k + 1))
          PROVE  g[s] = Step(g, s)
      <4>1. CASE k + 1 \in s
        <5>1. Max(s) = k + 1
          BY <4>1, MaxLast, SMTT(30)
        <5>2. s \ {k + 1} \in SUBSET (1..k) /\ k + 1 \notin s \ {k + 1} /\ s # {}
          BY <4>1, SMTT(30)
        <5>3. g[s \ {k + 1}] = f[s \ {k + 1}]
          BY <5>2
        <5> QED
          BY <4>1, <5>1, <5>2, <5>3
      <4>2. CASE k + 1 \notin s
        <5>1. s \in SUBSET (1..k)
          BY <4>2, SMTT(30)
        <5>2. g[s] = f[s]
          BY <4>2
        <5>3. f[s] = Step(f, s)
          BY <3>2, <5>1
        <5>4. g[s \ {Max(s)}] = f[s \ {Max(s)}]
          BY <4>2
        <5> HIDE DEF g
        <5> QED
          BY <5>2, <5>3, <5>4
      <4> QED
        BY <4>1, <4>2
    <3>4. g = [s \in DOMAIN g |-> g[s]] /\ DOMAIN g = SUBSET (1..(k + 1))
      OBVIOUS
    <3> HIDE DEF g, Step
    <3>5. Iter(k + 1, g)
      BY <3>3, <3>4
    <3> HIDE DEF Iter
    <3> QED
      BY <3>5, SMTT(30)
  <2>3. n \in P
    <3> HIDE DEF P
    <3> QED
      BY <2>1, <2>2, SetInduction
  <2> DEFINE h == CHOOSE h : Iter(n, h)
  <2>4. Iter(n, h)
    <3> HIDE DEF Iter
    <3> QED
      BY <2>3
  <2>5. KeepOthers(v) = h[1..n]
    BY DEF KeepOthers, FoldLeft, MapThenFoldSet
  <2>6. \A s \in SUBSET (1..n) : h[s] = Step(h, s)
    BY <2>4
  <2> HIDE DEF h
  <2> DEFINE F == [k \in 0..n |-> h[1..k]]
  <2>7. F[0] = <<>>
    <3>1. 1..0 = {} /\ 0 \in 0..n /\ {} \in SUBSET (1..n)
      BY SMTT(30)
    <3>2. F[0] = h[{}]
      BY <3>1
    <3> QED
      BY <2>6, <3>1, <3>2
  <2>8. ASSUME NEW k \in 1..n
        PROVE  F[k] = Keep(F[k - 1], v[k])
    <3>1. Max(1..k) = k /\ (1..k) \ {k} = 1..(k - 1)
      BY MaxLast, Prefix, SMTT(30)
    <3>2. k \in 1..k /\ 1..k \in SUBSET (1..n) /\ k - 1 \in 0..n /\ k \in 0..n
      BY SMTT(30)
    <3>3. h[1..k] = Keep(h[(1..k) \ {Max(1..k)}], v[Max(1..k)])
      BY <2>6, <3>2
    <3>4. F[k] = h[1..k] /\ F[k - 1] = h[1..(k - 1)]
      BY <3>2
    <3> HIDE DEF F
    <3> QED
      BY <3>1, <3>3, <3>4
  <2>9. F[n] = h[1..n]
    BY SMTT(30)
  <2> HIDE DEF F
  <2>10. KeepsRun(F, v, n)
    BY <2>5, <2>7, <2>8, <2>9 DEF KeepsRun
  <2> QED
    BY <2>10
<1>SameSeq.
      ASSUME NEW s, IsSeq(s), NEW t, IsSeq(t), Len(s) = Len(t), \A i \in 1..Len(s) : s[i] = t[i]
      PROVE  s = t
  <2> USE <1>SameSeq
  <2>1. s = [i \in 1..Len(s) |-> s[i]]
    BY SMTT(30) DEF IsSeq
  <2>2. t = [i \in 1..Len(t) |-> t[i]]
    BY SMTT(30) DEF IsSeq
  <2> QED
    BY <2>1, <2>2
<1>KeptStep.
      ASSUME NEW v, IsSeq(v), NEW k \in Nat, k + 1 <= Len(v), NEW s, KeptSeq(v, k, s),
             NEW t, t = Keep(s, v[k + 1])
      PROVE  KeptSeq(v, k + 1, t)
  <2> USE <1>KeptStep
  <2>1. /\ IsSeq(s) /\ Len(s) \in Nat /\ Len(v) \in Nat
        /\ \A j \in 1..Len(s) : \E i \in 1..k : s[j] = v[i] /\ v[i].name # ContainerName
        /\ \A i \in 1..k : v[i].name # ContainerName => \E j \in 1..Len(s) : s[j] = v[i]
        /\ (\A i \in 1..k : v[i].name # ContainerName) => Len(s) = k /\ \A i \in 1..k : s[i] = v[i]
        /\ DistinctNames(v) => DistinctNames(s)
    BY SeqDomain DEF KeptSeq
  <2>2. \A i \in 1..(k + 1) : i \in 1..k \/ i = k + 1
    BY SMTT(30)
  <2>3. 1..k \subseteq 1..(k + 1) /\ k + 1 \in 1..(k + 1) /\ 1..(k + 1) \subseteq 1..Len(v)
    BY <2>1, SMTT(30)
  <2>4. CASE v[k + 1].name = ContainerName
    <3>1. t = s
      BY <2>4 DEF Keep
    <3>2. \A j \in 1..Len(s) : \E i \in 1..(k + 1) : s[j] = v[i] /\ v[i].name # ContainerName
      BY <2>1, <2>3
    <3>3. \A i \in 1..(k + 1) : v[i].name # ContainerName => \E j \in 1..Len(s) : s[j] = v[i]
      BY <2>1, <2>2, <2>4
    <3>4. ~ \A i \in 1..(k + 1) : v[i].name # ContainerName
      BY <2>3, <2>4
    <3>5. IsSeq(s) /\ (DistinctNames(v) => DistinctNames(s))
      BY <2>1
    <3>6. KeptSeq(v, k + 1, s)
      BY ONLY <3>2, <3>3, <3>4, <3>5 DEF KeptSeq
    <3> QED
      BY <3>1, <3>6
  <2>5. CASE v[k + 1].name # ContainerName
    <3>1. t = Append(s, v[k + 1])
      BY <2>5 DEF Keep
    <3>2. /\ IsSeq(t) /\ Len(t) = Len(s) + 1 /\ t[Len(s) + 1] = v[k + 1]
          /\ \A i \in 1..Len(s) : t[i] = s[i]
      BY <2>1, <3>1, AppendSeq, SMTT(30)
    <3>3. /\ \A j \in 1..Len(t) : j \in 1..Len(s) \/ j = Len(s) + 1
          /\ 1..Len(s) \subseteq 1..Len(t) /\ Len(s) + 1 \in 1..Len(t)
      BY <2>1, <3>2, SMTT(30)
    <3>4. \A j \in 1..Len(t) : \E i \in 1..(k + 1) : t[j] = v[i] /\ v[i].name # ContainerName
      <4> SUFFICES ASSUME NEW j \in 1..Len(t)
                   PROVE  \E i \in 1..(k + 1) : t[j] = v[i] /\ v[i].name # ContainerName
        OBVIOUS
      <4>1. CASE j \in 1..Len(s)
        <5>1. PICK i \in 1..k : s[j] = v[i] /\ v[i].name # ContainerName
          BY <2>1, <4>1
        <5> QED
          BY <2>3, <3>2, <4>1, <5>1
      <4>2. CASE j = Len(s) + 1
        BY <2>3, <2>5, <3>2, <4>2
      <4> QED
        BY <3>3, <4>1, <4>2
    <3>5. \A i \in 1..(k + 1) : v[i].name # ContainerName => \E j \in 1..Len(t) : t[j] = v[i]
      <4> SUFFICES ASSUME NEW i \in 1..(k + 1), v[i].name # ContainerName
                   PROVE  \E j \in 1..Len(t) : t[j] = v[i]
        OBVIOUS
      <4>1. CASE i \in 1..k
        <5>1. PICK j \in 1..Len(s) : s[j] = v[i]
          BY <2>1, <4>1
        <5> QED
          BY <3>2, <3>3, <5>1
      <4>2. CASE i = k + 1
        BY <3>2, <3>3, <4>2
      <4> QED
        BY <2>2, <4>1, <4>2
    <3>6. ASSUME \A i \in 1..(k + 1) : v[i].name # ContainerName
          PROVE  Len(t) = k + 1 /\ \A i \in 1..(k + 1) : t[i] = v[i]
      <4>1. Len(s) = k /\ \A i \in 1..k : s[i] = v[i]
        BY <2>1, <2>3, <3>6
      <4> QED
        BY <2>2, <3>2, <4>1
    <3>7. ASSUME DistinctNames(v), NEW a \in 1..Len(t), NEW b \in 1..Len(t), t[a].name = t[b].name
          PROVE  a = b
      <4>1. \A j \in 1..Len(s) : s[j].name # v[k + 1].name
        <5> SUFFICES ASSUME NEW j \in 1..Len(s), s[j].name = v[k + 1].name PROVE FALSE
          OBVIOUS
        <5>1. PICK i \in 1..k : s[j] = v[i]
          BY <2>1
        <5>2. i \in 1..Len(v) /\ k + 1 \in 1..Len(v) /\ i # k + 1
          BY <2>1, SMTT(30)
        <5> QED
          BY <3>7, <5>1, <5>2 DEF DistinctNames
      <4>2. \A i, j \in 1..Len(s) : s[i].name = s[j].name => i = j
        BY <2>1, <3>7 DEF DistinctNames
      <4> QED
        BY <3>2, <3>3, <3>7, <4>1, <4>2
    <3>8. DistinctNames(v) => DistinctNames(t)
      BY <3>7 DEF DistinctNames
    <3> QED
      BY <3>2, <3>4, <3>5, <3>6, <3>8 DEF KeptSeq
  <2> QED
    BY <2>4, <2>5
<1>KeptAll.
      ASSUME NEW v, IsSeq(v)
      PROVE  KeptSeq(v, Len(v), KeepOthers(v))
  <2> USE <1>KeptAll
  <2> DEFINE n == Len(v)
  <2>1. n \in Nat /\ DOMAIN v = 1..n
    BY SeqDomain
  <2>2. PICK F : KeepsRun(F, v, n)
    BY <2>1, <1>KeepRun
  <2> DEFINE P == {k \in Nat : k <= n => KeptSeq(v, k, F[k])}
  <2>3. 0 \in P
    <3>1. F[0] = <<>>
      BY <2>2 DEF KeepsRun
    <3>2. KeptSeq(v, 0, <<>>)
      BY NullSeq, SMTT(30) DEF KeptSeq, DistinctNames
    <3> QED
      BY <3>1, <3>2
  <2>4. ASSUME NEW k \in Nat, k \in P
        PROVE  k + 1 \in P
    <3> SUFFICES ASSUME k + 1 <= n PROVE KeptSeq(v, k + 1, F[k + 1])
      BY SMTT(30)
    <3>1. KeptSeq(v, k, F[k]) /\ k + 1 \in 1..n
      BY <2>1, <2>4, SMTT(30)
    <3>2. F[k + 1] = Keep(F[k], v[k + 1])
      BY <2>2, <3>1, SMTT(30) DEF KeepsRun
    <3> QED
      BY <3>1, <3>2, <1>KeptStep
  <2>5. Nat \subseteq P
    <3> HIDE DEF P
    <3> QED
      BY <2>3, <2>4, SetInduction
  <2>6. KeptSeq(v, n, F[n]) /\ KeepOthers(v) = F[n]
    BY <2>1, <2>2, <2>5, SMTT(30) DEF KeepsRun
  <2> QED
    BY <2>6
<1>RemovePod.
      ASSUME NEW p, IsPod(p), NEW q, q = remove(p)
      PROVE  Removed(p, q)
  <2> USE <1>RemovePod
  <2> DEFINE v == p.containers
             s == KeepOthers(p.containers)
  <2>1. DOMAIN p = {"containers", "inits", "volumes", "shareProcessNamespace", "containerNames",
                    "goExe", "owner", "annotations", "meta"}
    BY DEF IsPod
  <2>2. IsSeq(v) /\ DOMAIN v = 1..Len(v) /\ Len(v) \in Nat
    BY PodParts DEF IsPod
  <2>3. q = [p EXCEPT !.containers = s]
    BY DEF remove
  <2>4. KeptSeq(v, Len(v), s)
    BY <2>2, <1>KeptAll
  <2> HIDE DEF s
  <2>5. /\ Rest(p, q) /\ q.shareProcessNamespace = p.shareProcessNamespace
        /\ q.inits = p.inits /\ q.volumes = p.volumes /\ q.containers = s
    BY <2>1, <2>3 DEF Rest
  <2>6. /\ IsSeq(s) /\ DOMAIN s = 1..Len(s)
        /\ \A j \in 1..Len(s) : \E i \in 1..Len(v) : s[j] = v[i] /\ v[i].name # ContainerName
        /\ \A i \in 1..Len(v) : v[i].name # ContainerName => \E j \in 1..Len(s) : s[j] = v[i]
        /\ (\A i \in 1..Len(v) : v[i].name # ContainerName) =>
              Len(s) = Len(v) /\ \A i \in 1..Len(v) : s[i] = v[i]
        /\ DistinctNames(v) => DistinctNames(s)
    BY <2>4, SeqDomain DEF KeptSeq
  <2>7. Range(s) = {c \in Range(v) : c.name # ContainerName}
    <3>1. ASSUME NEW c \in Range(s) PROVE c \in Range(v) /\ c.name # ContainerName
      <4>1. PICK j \in 1..Len(s) : c = s[j]
        BY <2>6 DEF Range
      <4>2. PICK i \in 1..Len(v) : s[j] = v[i] /\ v[i].name # ContainerName
        BY <2>6
      <4> QED
        BY <2>2, <4>1, <4>2 DEF Range
    <3>2. ASSUME NEW c \in Range(v), c.name # ContainerName PROVE c \in Range(s)
      <4>1. PICK i \in 1..Len(v) : c = v[i]
        BY <2>2 DEF Range
      <4>2. PICK j \in 1..Len(s) : s[j] = v[i]
        BY <2>6, <3>2, <4>1
      <4> QED
        BY <2>6, <4>1, <4>2 DEF Range
    <3> QED
      BY <3>1, <3>2
  <2>8. IsPod(q)
    <3>1. DOMAIN q = DOMAIN p
      BY <2>5 DEF Rest
    <3>2. \A c \in Range(s) \cup Range(q.inits) : IsContainer(c)
      BY <2>5, <2>7 DEF IsPod
    <3> QED
      BY <2>5, <2>6, <3>1, <3>2 DEF IsPod
  <2>9. ASSUME ~existsIn(p)
        PROVE  s = v
    <3>1. \A i \in 1..Len(v) : v[i].name # ContainerName
      BY <2>2, <2>9 DEF existsIn, Range
    <3>2. Len(s) = Len(v) /\ \A i \in 1..Len(v) : s[i] = v[i]
      BY <2>6, <3>1
    <3> QED
      BY <2>2, <2>6, <3>2, <1>SameSeq
  <2> QED
    BY <2>5, <2>6, <2>7, <2>8, <2>9 DEF Removed
<1>AddPod.
      ASSUME NEW p, IsPod(p), NEW col, CollectorOK(col), NEW e, IsEnv(e), NEW ports,
             NEW q, q = add(col, p, e, ports)
      PROVE  SidecarAdded(col, e, ports, p, q)
  <2> USE <1>AddPod
  <2> DEFINE c == SidecarContainer(col, e, ports)
  <2>1. DOMAIN p = {"containers", "inits", "volumes", "shareProcessNamespace", "containerNames",
                    "goExe", "owner", "annotations", "meta"}
    BY DEF IsPod
  <2>2. IsContainer(c)
    BY SidecarIsContainer
  <2>3. c = [Container(col, ports) EXCEPT !.env = SidecarEnv(col, e)]
    BY SMTT(30) DEF Container, SidecarContainer
  <2>4. Container(col, ports).env = Append(col.env, FieldRef("POD_NAME"))
    BY DEF Container
  <2>5. q = [p EXCEPT !.containers = Append(@, c), !.volumes = @ \o col.volumes]
    BY <2>3, <2>4 DEF add, SidecarEnv, OwnConfig, ORA
  <2> HIDE DEF c
  <2>6. /\ Rest(p, q) /\ q.shareProcessNamespace = p.shareProcessNamespace
        /\ q.inits = p.inits /\ q.volumes = p.volumes \o col.volumes
        /\ q.containers = Append(p.containers, c)
    BY <2>1, <2>5 DEF Rest
  <2>7. IsSeq(p.containers) /\ IsSeq(p.volumes) /\ IsSeq(col.volumes) /\ IsSeq(p.inits)
    BY DEF IsPod, CollectorOK
  <2>8. IsSeq(q.containers) /\ Range(q.containers) = Range(p.containers) \cup {c}
    BY <2>6, <2>7, AppendSeq, SMTT(30)
  <2>9. IsSeq(q.volumes)
    BY <2>6, <2>7, ConcatSeq, SMTT(30)
  <2>10. DOMAIN q = DOMAIN p /\ IsSeq(q.inits)
    BY <2>6, <2>7 DEF Rest
  <2>11. \A d \in Range(q.containers) \cup Range(q.inits) : IsContainer(d)
    BY <2>2, <2>6, <2>8 DEF IsPod
  <2>12. IsPod(q)
    BY <2>1, <2>8, <2>9, <2>10, <2>11 DEF IsPod
  <2> QED
    BY <2>6, <2>12 DEF SidecarAdded, c
<1>SidecarMutate.
      ASSUME NEW space, NEW p, NEW deployed, NEW found,
             NEW first \in sidecarMutate(space, p, deployed, found)
      PROVE  SidecarCases(space, p, deployed, found, first)
  <2> USE <1>SidecarMutate
  <2> DEFINE annotation == sidecarAnnotationValue(space, p)
             selected == getCollectorInstance(annotation, deployed)
             m == CHOOSE n \in selected : TRUE
             e == getResourceAttributesEnv(podReferences(p, found))
  <2>1. CASE annotation = ""
    BY <2>1 DEF sidecarMutate, SidecarCases, SidecarNothing
  <2>2. CASE annotation # "" /\ annotation = "false"
    BY <2>2 DEF sidecarMutate, SidecarCases
  <2>3. CASE annotation # "" /\ annotation # "false" /\ existsIn(p)
    BY <2>3 DEF sidecarMutate, SidecarCases, SidecarNothing
  <2>4. CASE /\ annotation # "" /\ annotation # "false" /\ ~existsIn(p)
             /\ CollectorMissing(annotation, deployed)
    <3>1. first = Result(FALSE, p)
      BY <2>4 DEF sidecarMutate
    <3> QED
      BY <2>4, <3>1 DEF SidecarCases
  <2>5. CASE /\ annotation # "" /\ annotation # "false" /\ ~existsIn(p)
             /\ ~CollectorMissing(annotation, deployed) /\ ~Single(selected)
    <3>1. first = Result(TRUE, p)
      BY <2>5 DEF sidecarMutate
    <3> QED
      BY <2>5, <3>1 DEF SidecarCases, SidecarNothing
  <2>6. CASE /\ annotation # "" /\ annotation # "false" /\ ~existsIn(p)
             /\ ~CollectorMissing(annotation, deployed) /\ Single(selected)
    <3>1. PICK r \in getConfigContainerPorts(deployed[m].config) :
                first = IF r.panic THEN Result(FALSE, p)
                        ELSE Result(TRUE, add(deployed[m], p, e, r.value))
      BY <2>6 DEF sidecarMutate
    <3>2. m \in selected /\ selected = {m}
      BY <2>6 DEF Single
    <3> HIDE DEF m
    <3>3. SidecarAdds(space, p, deployed, found, first)
      BY <2>6, <3>1, <3>2 DEF SidecarAdds
    <3> QED
      BY <3>3 DEF SidecarCases
  <2> QED
    BY <2>1, <2>2, <2>3, <2>4, <2>5, <2>6
<1> SUFFICES ASSUME NEW space, NEW p, IsPod(p), NEW deployed, CollectorsOK(deployed), NEW found,
                    NEW first \in sidecarMutate(space, p, deployed, found)
             PROVE  SidecarDone(space, p, deployed, found, first)
  OBVIOUS
<1> DEFINE annotation == sidecarAnnotationValue(space, p)
           selected == getCollectorInstance(annotation, deployed)
           e == getResourceAttributesEnv(podReferences(p, found))
<1>1. SidecarCases(space, p, deployed, found, first)
  BY <1>SidecarMutate
<1>2. \A q : /\ Result(TRUE, q).ok = TRUE /\ Result(TRUE, q).pod = q
             /\ Result(FALSE, q).ok = FALSE /\ Result(FALSE, q).pod = q
  BY DEF Result
<1>3. CASE SidecarNothing(space, p, deployed) /\ first = Result(TRUE, p)
  BY <1>2, <1>3 DEF SidecarDone
<1>4. CASE annotation = "false" /\ first = Result(TRUE, remove(p))
  <2>1. Removed(p, remove(p))
    BY <1>RemovePod
  <2>2. first.ok /\ first.pod = remove(p)
    BY <1>2, <1>4
  <2> QED
    BY <1>4, <2>1, <2>2 DEF SidecarDone
<1>5. CASE /\ annotation \notin {"", "false"} /\ ~existsIn(p) /\ CollectorMissing(annotation, deployed)
           /\ first = Result(FALSE, p)
  BY <1>2, <1>5 DEF SidecarDone
<1>6. CASE SidecarAdds(space, p, deployed, found, first)
  <2>1. annotation \notin {"", "false"} /\ ~existsIn(p)
    BY <1>6 DEF SidecarAdds
  <2>2. PICK n \in selected :
             /\ selected = {n}
             /\ \E r \in getConfigContainerPorts(deployed[n].config) :
                   first = IF r.panic THEN Result(FALSE, p)
                           ELSE Result(TRUE, add(deployed[n], p, e, r.value))
    BY <1>6 DEF SidecarAdds
  <2>3. PICK r \in getConfigContainerPorts(deployed[n].config) :
                   first = IF r.panic THEN Result(FALSE, p)
                           ELSE Result(TRUE, add(deployed[n], p, e, r.value))
    BY <2>2
  <2>4. CASE r.panic
    <3>1. ~first.ok
      BY <1>2, <2>3, <2>4
    <3> QED
      BY <2>1, <2>2, <2>3, <2>4, <3>1 DEF SidecarDone
  <2>5. CASE ~r.panic
    <3>1. first.ok /\ first.pod = add(deployed[n], p, e, r.value)
      BY <1>2, <2>3, <2>5
    <3>2. CollectorOK(deployed[n])
      BY <2>2 DEF getCollectorInstance, CollectorsOK
    <3>3. IsEnv(e)
      BY OwnEnv
    <3>4. SidecarAdded(deployed[n], e, r.value, p, first.pod)
      <4> HIDE DEF e
      <4> QED
        BY <3>1, <3>2, <3>3, <1>AddPod
    <3> QED
      BY <2>1, <2>2, <2>3, <3>1, <3>4 DEF SidecarDone
  <2> QED
    BY <2>4, <2>5
<1> QED
  BY <1>1, <1>3, <1>4, <1>5, <1>6 DEF SidecarCases

\* What the first mutator leaves as it is, if it succeeds.
LEMMA SidecarKeeps ==
    ASSUME NEW space, NEW p, IsPod(p), NEW deployed, NEW found, NEW first,
           SidecarDone(space, p, deployed, found, first), first.ok
    PROVE  /\ IsPod(first.pod) /\ Rest(p, first.pod) /\ first.pod.inits = p.inits
           /\ first.pod.shareProcessNamespace = p.shareProcessNamespace
           /\ isAutoInstrumentationInjected(first.pod) <=> isAutoInstrumentationInjected(p)
<1> DEFINE q == first.pod
<1>1. CASE q = p
  BY <1>1 DEF Rest
<1>2. CASE Removed(p, q)
  <2>1. Range(q.containers) = {c \in Range(p.containers) : c.name # ContainerName} /\ q.inits = p.inits
    BY <1>2 DEF Removed
  <2>2. ContainerName # AutoInstrumentation
    BY DEF ContainerName, AutoInstrumentation
  <2>3. isAutoInstrumentationInjected(q) <=> isAutoInstrumentationInjected(p)
    BY <2>1, <2>2 DEF isAutoInstrumentationInjected
  <2> QED
    BY <1>2, <2>3 DEF Removed
<1>3. CASE \E n, e, ports : SidecarAdded(deployed[n], e, ports, p, q)
  <2>1. PICK n, e, ports : SidecarAdded(deployed[n], e, ports, p, q)
    BY <1>3
  <2> DEFINE c == SidecarContainer(deployed[n], e, ports)
  <2>2. Range(q.containers) = Range(p.containers) \cup {c} /\ q.inits = p.inits
    BY <2>1, AppendSeq, SMTT(30) DEF SidecarAdded, IsPod
  <2>3. c.name # AutoInstrumentation
    BY DEF SidecarContainer, ContainerName, AutoInstrumentation
  <2> HIDE DEF c
  <2>4. isAutoInstrumentationInjected(q) <=> isAutoInstrumentationInjected(p)
    BY <2>2, <2>3 DEF isAutoInstrumentationInjected
  <2> QED
    BY <2>1, <2>4 DEF SidecarAdded
<1>4. (q = p) \/ Removed(p, q) \/ \E n, e, ports : SidecarAdded(deployed[n], e, ports, p, q)
  BY DEF SidecarDone
<1> QED
  BY <1>1, <1>2, <1>3, <1>4

\* A request that is answered: nothing is done, or both mutators succeed.
LEMMA Response ==
    ASSUME NEW space, NEW p, IsPod(p), NamesOK(space, p), NEW deployed, CollectorsOK(deployed),
           NEW stored, InstancesOK(stored), NEW local, NEW found, NEW r,
           Responds(space, p, deployed, stored, local, found, r)
    PROVE  \E first : LET second == instMutate(space, first.pod, stored, local, found) IN
              /\ SidecarDone(space, p, deployed, found, first)
              /\ \/ ~(first.ok /\ second.ok) /\ r = p
                 \/ /\ first.ok /\ second.ok /\ r = second.pod
                    /\ IsPod(first.pod) /\ NamesOK(space, first.pod) /\ Grown(first.pod, r)
<1>1. PICK first \in sidecarMutate(space, p, deployed, found) :
          LET second == instMutate(space, first.pod, stored, local, found)
          IN  r = IF first.ok /\ second.ok THEN second.pod ELSE p
  BY DEF Responds
<1> DEFINE second == instMutate(space, first.pod, stored, local, found)
<1>2. SidecarDone(space, p, deployed, found, first)
  BY SidecarDoes
<1>3. CASE first.ok /\ second.ok
  <2>1. r = second.pod
    BY <1>1, <1>3
  <2>2. IsPod(first.pod) /\ Rest(p, first.pod)
    BY <1>2, <1>3, SidecarKeeps
  <2>3. NamesOK(space, first.pod)
    BY <2>2 DEF NamesOK, Rest
  <2>4. Grown(first.pod, second.pod)
    <3>1. second = instMutate(space, first.pod, stored, local, found)
      OBVIOUS
    <3> HIDE DEF second
    <3> QED
      BY <2>2, <2>3, <3>1, GrownInst
  <2> QED
    BY <1>2, <1>3, <2>1, <2>2, <2>3, <2>4
<1>4. CASE ~(first.ok /\ second.ok)
  BY <1>1, <1>2, <1>4
<1> QED
  BY <1>3, <1>4

LEMMA InstOk ==
    ASSUME NEW space, NEW p, NEW stored, NEW local, NEW found,
           NEW second, second = instMutate(space, p, stored, local, found), second.ok
    PROVE  InstDone(space, p, stored, local, found, second.pod)
<1> DEFINE q == InjectAll(Insts(space, p, stored, local), p, ContainerNames(space, p), found)
<1>1. InstCases(space, p, stored, local, found, second)
  BY InstMutate
<1>2. second # Result(FALSE, p)
  BY SMTT(30) DEF Result
<1>3. second = Result(TRUE, p) => second.pod = p
  BY SMTT(30) DEF Result
<1>4. second = Result(TRUE, q) => second.pod = q
  <2> HIDE DEF q
  <2> QED
    BY SMTT(30) DEF Result
<1> QED
  BY <1>1, <1>2, <1>3, <1>4 DEF InstCases, InstDone

-----------------------------------------------------------------------------
(* The steps, as the pods see them.                                        *)

LEMMA ReadsOK ==
    ASSUME PodType, InstancesType
    PROVE  /\ CollectorsOK(collectors) /\ InstancesOK(instances)
           /\ \A p \in Requests : IsPod(p) /\ NamesOK(ns, p)
<1>1. CollectorsOK(collectors)
  BY ShapeAssumption DEF PodType, CollectorsOK, CollectorOK
<1>2. \A i \in Instance : IsInst(i)
  <2> SUFFICES ASSUME NEW i \in Instance PROVE IsInst(i)
    OBVIOUS
  <2>1. i.env \in {j.env : j \in Instances} /\ i.langEnv \in {j.langEnv : j \in Instances}
    BY DEF Instance
  <2> QED
    BY <2>1, ShapeAssumption DEF IsInst
<1>3. InstancesOK(instances)
  BY <1>2 DEF InstancesType, InstancesOK
<1>4. \A p \in Requests : IsPod(p) /\ NamesOK(ns, p)
  BY ShapeAssumption DEF PodType, NamesOK
<1> QED
  BY <1>1, <1>3, <1>4

LEMMA HandleResponds ==
    ASSUME NEW p, NEW found, NEW r \in Handle(p, found)
    PROVE  Responds(ns, p, collectors, instances, Name, found, r)
BY DEF Handle, Responds

LEMMA ResponseIsPod ==
    ASSUME PodType, InstancesType, NEW p \in Requests, NEW found, NEW r,
           Responds(ns, p, collectors, instances, Name, found, r)
    PROVE  IsPod(r)
<1>1. CollectorsOK(collectors) /\ InstancesOK(instances) /\ IsPod(p) /\ NamesOK(ns, p)
  BY ReadsOK
<1>2. PICK first : LET second == instMutate(ns, first.pod, instances, Name, found) IN
              /\ SidecarDone(ns, p, collectors, found, first)
              /\ \/ ~(first.ok /\ second.ok) /\ r = p
                 \/ /\ first.ok /\ second.ok /\ r = second.pod
                    /\ IsPod(first.pod) /\ NamesOK(ns, first.pod) /\ Grown(first.pod, r)
  BY <1>1, Response
<1> QED
  BY <1>1, <1>2 DEF Grown

LEMMA CreateStep ==
    ASSUME PodType, InstancesType, CreatePod
    PROVE  \E p \in Requests : \E r : Creates(p, r)
<1>1. PICK p \in Requests, handled \in BOOLEAN, found \in BOOLEAN :
          \E response \in IF handled THEN Handle(p, found) ELSE {p} :
             /\ asked' = p
             /\ pod' = IF Acceptable(response) THEN Stored(response) ELSE Nil
             /\ outcome' = IF Acceptable(response) THEN "created" ELSE "not created"
             /\ changed' = ~handled
  BY DEF CreatePod
<1>2. PICK r \in IF handled THEN Handle(p, found) ELSE {p} :
             /\ asked' = p
             /\ pod' = IF Acceptable(r) THEN Stored(r) ELSE Nil
             /\ outcome' = IF Acceptable(r) THEN "created" ELSE "not created"
             /\ changed' = ~handled
  BY <1>1
<1>3. ns' = ns /\ collectors' = collectors /\ instances' = instances
  BY DEF CreatePod
<1>4. \/ Acceptable(r) /\ pod' = Stored(r) /\ outcome' = "created"
      \/ ~Acceptable(r) /\ pod' = Nil /\ outcome' = "not created"
  BY <1>2
<1>5. CASE handled
  <2>1. r \in Handle(p, found)
    BY <1>5
  <2>2. Responds(ns, p, collectors, instances, Name, found, r)
    BY <2>1, HandleResponds
  <2>3. IsPod(r)
    BY <2>2, ResponseIsPod
  <2> QED
    BY <1>2, <1>3, <1>4, <2>2, <2>3 DEF Creates
<1>6. CASE ~handled
  <2>1. r = p /\ changed' = TRUE
    BY <1>2, <1>6
  <2>2. IsPod(r)
    BY <2>1, ReadsOK
  <2> QED
    BY <1>2, <1>3, <1>4, <2>1, <2>2 DEF Creates
<1> QED
  BY <1>5, <1>6

LEMMA ImageSteps ==
    ASSUME ImageInv,
           \/ ChooseImage \/ Restart \/ List \/ Done \/ UNCHANGED vars
           \/ \E n \in Name : Update(n) \/ UpdateFails(n)
    PROVE  ImageStep
<1>1. /\ ns' = ns /\ collectors' = collectors /\ asked' = asked /\ pod' = pod
      /\ outcome' = outcome /\ changed' = changed
  BY DEF ChooseImage, Restart, List, Done, vars, Update, UpdateFails, podVars
<1> SUFFICES SameSpecs(instances, instances')
  BY <1>1 DEF ImageStep
<1>2. instances \in [Name -> Instance \cup {Nil}] /\ version \in Nat
  BY DEF ImageInv, InstancesType
<1>3. ASSUME NEW n \in Name, NEW new \in Instance, instances[n] # Nil,
             instances' = [instances EXCEPT ![n] = new],
             new.env = instances[n].env, new.langEnv = instances[n].langEnv
      PROVE  SameSpecs(instances, instances')
  <2>1. new # Nil
    BY ObjectsAssumption
  <2> QED
    BY <1>2, <1>3, <2>1 DEF SameSpecs
<1>4. CASE instances' = instances
  BY <1>4 DEF SameSpecs
<1>5. CASE ChooseImage
  <2>1. PICK n \in Name, l \in Language, image \in {NoImage, <<"user", 1>>} :
             /\ instances[n] # Nil
             /\ instances' = [instances EXCEPT ![n] =
                                Default([instances[n] EXCEPT !.image[l] = image], version)]
    BY <1>5 DEF ChooseImage
  <2> DEFINE old == instances[n]
             mid == [old EXCEPT !.image[l] = image]
             new == Default(mid, version)
  <2>2. old \in Instance
    BY <1>2, <2>1
  <2>3. mid \in Instance /\ mid.env = old.env /\ mid.langEnv = old.langEnv
    <3>1. image \in Image
      BY SMTT(30) DEF Image
    <3> HIDE DEF old
    <3> QED
      BY <2>2, <3>1 DEF Instance
  <2>4. new \in Instance /\ new.env = mid.env /\ new.langEnv = mid.langEnv
    <3> HIDE DEF mid
    <3> QED
      BY <1>2, <2>3, DefaultType, DefaultFields
  <2>5. instances' = [instances EXCEPT ![n] = new]
    BY <2>1
  <2> HIDE DEF new, mid
  <2> QED
    BY <1>3, <2>1, <2>3, <2>4, <2>5
<1>6. CASE \E n \in Name : Update(n)
  <2>1. PICK n \in Name : Update(n)
    BY <1>6
  <2>2. CASE n \in dirty
    BY <1>4, <2>1, <2>2 DEF Update
  <2>3. CASE n \notin dirty
    <3> DEFINE old == listed[n]
               new == Default(upgrade(old, version), version)
    <3>1. instances' = [instances EXCEPT ![n] = new] /\ old # Nil /\ upgrading = "update"
      BY <2>1, <2>3 DEF Update
    <3>2. old = instances[n] /\ old \in Instance
      BY <1>2, <2>3, <3>1 DEF ImageInv
    <3>3. Sound(n)
      BY DEF ImageInv
    <3>4. \A l \in Language : old.annotation[l] # NoImage /\ old.image[l] # NoImage
      BY <3>1, <3>2, <3>3 DEF Sound
    <3>5. new \in Instance /\ new.env = old.env /\ new.langEnv = old.langEnv
      <4> HIDE DEF old
      <4> QED
        BY <1>2, <3>2, <3>4, UpgradedFields
    <3> HIDE DEF new
    <3> QED
      BY <1>3, <3>1, <3>2, <3>5
  <2> QED
    BY <2>2, <2>3
<1>7. CASE Restart \/ List \/ Done \/ UNCHANGED vars \/ \E n \in Name : UpdateFails(n)
  <2>1. instances' = instances
    BY <1>7 DEF Restart, List, Done, vars, UpdateFails
  <2> QED
    BY <1>4, <2>1
<1> QED
  BY <1>5, <1>6, <1>7

LEMMA PodSteps ==
    ASSUME ImageInv, [Next]_vars
    PROVE  CreatePod \/ UpdatePod \/ DeletePod \/ ReadStep \/ ImageStep
<1>1. CASE AnnotateNamespace \/ WriteCollector \/ WriteInstance
  BY <1>1 DEF AnnotateNamespace, WriteCollector, WriteInstance, ReadStep
<1> QED
  BY <1>1, ImageSteps DEF Next

LEMMA PodTypeStep ==
    ASSUME PodType, ImageInv, [Next]_vars
    PROVE  PodType'
<1>1. CASE ns' = ns /\ collectors' = collectors
  BY <1>1 DEF PodType
<1>2. CASE AnnotateNamespace
  <2>1. ns' \in Namespaces /\ collectors' = collectors
    BY <1>2 DEF AnnotateNamespace
  <2> QED
    BY <2>1 DEF PodType
<1>3. CASE WriteCollector
  <2>1. PICK n \in Name, c \in Collectors \cup {Nil} : collectors' = [collectors EXCEPT ![n] = c]
    BY <1>3 DEF WriteCollector
  <2>2. ns' = ns
    BY <1>3 DEF WriteCollector
  <2> QED
    BY <2>1, <2>2 DEF PodType
<1>4. CASE CreatePod \/ UpdatePod \/ DeletePod \/ WriteInstance
  <2>1. ns' = ns /\ collectors' = collectors
    BY <1>4 DEF CreatePod, UpdatePod, DeletePod, WriteInstance, podVars
  <2> QED
    BY <1>1, <2>1
<1>5. CASE \/ ChooseImage \/ Restart \/ List \/ Done \/ UNCHANGED vars
           \/ \E n \in Name : Update(n) \/ UpdateFails(n)
  <2>1. ImageStep
    BY <1>5, ImageSteps
  <2> QED
    BY <1>1, <2>1 DEF ImageStep
<1> QED
  BY <1>2, <1>3, <1>4, <1>5 DEF Next

LEMMA InitReads ==
    ASSUME Init
    PROVE  ReadInv
<1>1. ns \in Namespaces /\ collectors \in InitialCollectors
  BY DEF Init
<1> QED
  BY <1>1, InitImages, ObjectsAssumption DEF ReadInv, PodType

LEMMA StepReads ==
    ASSUME ReadInv, [Next]_vars
    PROVE  ReadInv'
BY StepImages, PodTypeStep DEF ReadInv

LEMMA StoredAlike ==
    ASSUME NEW r, IsPod(r)
    PROVE  Alike(r, Stored(r))
BY DEF Alike, Stored, IsPod

=============================================================================
