----------------------------- MODULE WorkerPools -----------------------------
(***************************************************************************)
(* Worker pools: one process that generates them from worker-pools.yml and  *)
(* worker-images.yml, and checks the images, over the same files, which it  *)
(* reads once and keeps as Python objects.                                  *)
(*   src/src/ciadmin/generate/worker_pools.py                               *)
(*   src/src/ciadmin/generate/ciconfig/worker_images.py                     *)
(*   src/src/ciadmin/check/check_worker_images.py                           *)
(* YAML anchors make one object of what is written in several places, so    *)
(* what is done to it for one pool could show in another.                   *)
(*                                                                          *)
(* A text is [stem, hole]: its words, and the attribute str.format puts     *)
(* after them, NoHole if it has none.  Dictionaries are merged at one       *)
(* level, their keys standing for dotted paths.                             *)
(***************************************************************************)
EXTENDS Integers, KeyedBy

CONSTANTS
  Pools,          \* worker-pools.yml: a sequence of pools
  Anchors,        \* the instance types its anchors name
  Defaults,       \* its worker-defaults: a keyed worker-config
  Providers,      \* [provider id -> {"aws", "google", "azure"}], of environments.yml
  EnvironmentArm, \* azure_config's armDeployment
  Zones,          \* [region -> set of zones], aws and google
  Invalid,        \* invalid-instances: [zones, families, profiles, suffixes] records
  ImageFiles,     \* the contents of worker-images.yml to look at
  MaxPasses       \* bound: how often the pools are generated in one process

Text    == [stem : Seq(STRING), hole : STRING]
NoHole  == ""
NoText  == [stem |-> <<>>, hole |-> NoHole]
NoAlias == <<>>
NoSpec  == ""
NoId    == ""
OptOut  == [out |-> TRUE]    \* armDeployment: False

\* An instance type or vm size, as it is written. Of its launchConfig only the
\* machine and the image it gives are looked at. A disk is an object, which may
\* stand in several places, made of the image or not, and in no zone yet.
IsType(t) ==
  /\ t = [machine |-> t.machine, disks |-> t.disks, capacity |-> t.capacity,
          manager |-> t.manager, config |-> t.config, arm |-> t.arm, launch |-> t.launch]
  /\ \A i \in DOMAIN t.disks :
       t.disks[i] = [object |-> t.disks[i].object, image |-> t.disks[i].image, zones |-> <<>>]
  /\ DOMAIN t.launch \subseteq {"machine", "image"}

\* The machine type of an anchor is a text. Names of images are keys in YAML.
ASSUME AnchorsAssumption ==
  \A a \in DOMAIN Anchors :
    /\ IsType(Anchors[a])
    /\ Anchors[a].machine = Lit(Anchors[a].machine.lit) /\ Anchors[a].machine.lit \in Text
ASSUME PoolsAssumption ==
  /\ Pools \in Seq(ToSet(Pools))
  /\ \A i \in DOMAIN Pools :
       /\ Pools[i].variants \in Seq(ToSet(Pools[i].variants))
       /\ \A j \in DOMAIN Pools[i].types : IsType(Pools[i].types[j])
ASSUME ImagesAssumption ==
  \A file \in ImageFiles :
    /\ file \in Seq(ToSet(file))
    /\ \A i, j \in DOMAIN file : file[i].name = file[j].name => i = j

VARIABLES
  anchors,   \* the objects the anchors name, as they are now
  images,    \* worker-images.yml: a sequence of [name, alias, clouds]
  pass,      \* what the process is doing
  todo,      \* the <<pool, variant>> it has still to come to
  made,      \* what it has made of those before
  passes

poolVars == <<anchors, images, pass, todo, made, passes>>

-----------------------------------------------------------------------------
(* generate_pool_variants.                                                 *)

\* str.format, and the rstrip of a separator that an empty value leaves.
Filled(text, attributes) ==
  CASE text.hole = NoHole -> text
    [] text.hole # NoHole /\ attributes[text.hole] = "" -> [text EXCEPT !.hole = NoHole]
    [] OTHER -> [stem |-> Append(text.stem, attributes[text.hole]), hole |-> NoHole]

Attributes(pool, v) ==
  pool.variants[v] @@ [environment |-> Object] @@ pool.attributes

\* The first pass over a pool: its vm sizes, the first of which becomes an
\* attribute of the second pass.
OwnTypes(pool, attributes) ==
  [i \in DOMAIN pool.types |->
     [pool.types[i] EXCEPT !.machine = EvaluateKeyedBy(@, attributes)]]
WithVmSize(pool, attributes) ==
  IF pool.vmSizes /\ pool.types # <<>>
    THEN [vmSize |-> OwnTypes(pool, attributes)[1].machine.lit.stem[1]] @@ attributes
    ELSE attributes

\* The second pass, over the fields the properties look at.
Fields == {"image", "implementation", "places", "arm"}
Evaluated(pool, attributes) ==
  [f \in Fields |-> EvaluateKeyedBy(pool[f], WithVmSize(pool, attributes))]

VariantRaises(pool, attributes) ==
  \/ IsRaised(EvaluateKeyedBy(pool.provider, attributes))
  \/ \E i \in DOMAIN pool.types : IsRaised(OwnTypes(pool, attributes)[i].machine)
  \/ \E f \in Fields : IsRaised(Evaluated(pool, attributes)[f])

\* instance_types come from the attributes if the pool itself has none.
Borrows(pool, attributes) == pool.types = <<>> /\ "instance_types" \in DOMAIN attributes

FilledType(type, attributes) == [type EXCEPT !.machine = Lit(Filled(@.lit, attributes))]

\* The types of a variant. The machine types of instance_types are formatted,
\* the vm sizes of vmSizes are not.
TypesOf(pool, attributes, cells) ==
  LET types == IF Borrows(pool, attributes)
                 THEN [i \in DOMAIN attributes.instance_types |->
                         cells[attributes.instance_types[i]]]
                 ELSE OwnTypes(pool, attributes)
  IN IF pool.vmSizes THEN types
     ELSE [i \in DOMAIN types |-> FilledType(types[i], attributes)]

\* Mutant: a borrowed type is not copied either when it is given zones.
FormattedInZones(pool, attributes, cells) ==
  [a \in DOMAIN cells |->
     IF Borrows(pool, attributes) /\ a \in ToSet(attributes.instance_types)
       THEN [FilledType(cells[a], attributes) EXCEPT
               !.disks = [i \in DOMAIN @ |-> [@[i] EXCEPT !.zones = Append(@, "zone")]]]
       ELSE cells[a]]

\* Borrowed types are formatted where they are: they are not copied.
Formatted(pool, attributes, cells) ==
  [a \in DOMAIN cells |->
     IF Borrows(pool, attributes) /\ a \in ToSet(attributes.instance_types)
       THEN FilledType(cells[a], attributes)
       ELSE cells[a]]

\* What generate_pool_variants yields for one variant of a pool.
Variant(pool, attributes, cells) ==
  LET value == Evaluated(pool, attributes)
      text(f) == IF IsNone(value[f]) THEN NoText ELSE Filled(value[f].lit, attributes)
  IN [name           |-> Filled(pool.name, attributes).stem,
      provider       |-> EvaluateKeyedBy(pool.provider, attributes).lit,
      image          |-> text("image").stem,
      implementation |-> text("implementation").stem,
      places         |-> value["places"].lit,
      arm            |-> value["arm"],
      perRegion      |-> pool.perRegion,
      config         |-> pool.config,
      manager        |-> pool.manager,
      types          |-> TypesOf(pool, attributes, cells)]

-----------------------------------------------------------------------------
(* worker_images.py.                                                       *)

Entry(file, name) == file[CHOOSE i \in DOMAIN file : file[i].name = name]
Named(file, name) == \E i \in DOMAIN file : file[i].name = name

Aliased(file, name) == Named(file, name) /\ Entry(file, name).alias # NoAlias
Follow(file, name)  == IF Aliased(file, name) THEN Entry(file, name).alias ELSE name

\* WorkerImages.__getitem__ follows aliases as long as there are any. When as many
\* as there are images have been followed and there still is one, it never ends.
Resolved(file, name) == FoldLeft(LAMBDA n, i : Follow(file, n), name, file)
InCircle(file, name) == Aliased(file, Resolved(file, name))

\* KeyErrors.
UnknownImage(file, name)       == ~Named(file, Resolved(file, name))
NotForCloud(file, name, cloud) == cloud \notin DOMAIN Entry(file, Resolved(file, name)).clouds
ImageFor(file, name, cloud) == Entry(file, Resolved(file, name)).clouds[cloud]

-----------------------------------------------------------------------------
(* make_worker_pool and the providers' functions.                          *)

Kind(v) == Providers[v.provider]
Implementation(v) ==
  CASE v.implementation # <<>> -> v.implementation
    [] v.implementation = <<>> /\ Kind(v) = "azure" ->
         <<"generic-worker/worker-runner-windows">>
    [] OTHER -> <<"docker-worker">>
IsDockerWorker(v) == Implementation(v) = <<"docker-worker">>

\* merge: later dictionaries take precedence.
Merge(dicts) == FoldLeft(LAMBDA all, d : d @@ all, <<>>, dicts)

\* A machine type is <<family, profile, cpus, suffix>>, or shorter; an entry
\* without profiles or suffixes is about all of them.
InvalidThere(zone, machine) ==
  \E e \in Invalid :
    /\ zone \in e.zones
    /\ machine[1] \in e.families
    /\ e.profiles = {} \/ machine[2] \in e.profiles
    /\ e.suffixes = {} \/ (Len(machine) > 3 /\ machine[4] \in e.suffixes)

\* Where workers of which type are to run: <<location or zone, index of the type>>.
ZonesOf(v) == UNION {Zones[r] : r \in v.places}
Placements(v) ==
  IF Kind(v) = "azure" THEN v.places \X DOMAIN v.types
  ELSE {p \in ZonesOf(v) \X DOMAIN v.types :
          ~InvalidThere(p[1], v.types[p[2]].machine.lit.stem)}

\* Mutant: the list is copied as a whole, and what is one object in it stays one.
CopiedTogether(disks) == [i \in DOMAIN disks |-> disks[i].object]

\* Each disk of the list is copied: an object for every place in it.
Copies(disks) == [i \in DOMAIN disks |-> i]

\* The zone is put in front of the disk type of every copy in turn: as often as
\* the copy stands in the list.
Disks(disks, zone) ==
  LET places(i) == {j \in DOMAIN disks : Copies(disks)[j] = Copies(disks)[i]}
  IN [i \in DOMAIN disks |->
        [image |-> disks[i].image,
         zones |-> [n \in 1 .. Cardinality(places(i)) |-> zone] \o disks[i].zones]]

\* _build_arm_template_launch_config: each layer is None, False, or a template
\* and parameters.
ArmDeployment(layers, automatic) ==
  LET given == SelectSeq(layers, LAMBDA l : ~IsNone(l))
      specs == SelectSeq(given, LAMBDA l : l.lit.spec # NoSpec)
  IN IF \E i \in DOMAIN given : IsRaised(given[i]) THEN Raised
     ELSE IF given = <<>> \/ \E i \in DOMAIN given : given[i].lit = OptOut THEN NoValue
     ELSE IF specs = <<>> THEN Raised
     ELSE Lit([spec       |-> Last(specs).lit.spec,
               parameters |-> FoldLeft(LAMBDA ps, l : l.lit.parameters @@ ps,
                                       automatic, given)])

Machine(v, p)  == v.types[p[2]].machine.lit.stem
Location(v, p) == [location |-> p[1], vmSize |-> Machine(v, p)[1]]
Layer(value, v, p) ==
  IF IsNone(value) THEN NoValue ELSE EvaluateKeyedBy(value, Location(v, p))
Arm(v, p, image) ==
  IF Kind(v) # "azure" THEN NoValue
  ELSE ArmDeployment(<<Layer(EnvironmentArm, v, p), Layer(image.arm, v, p), v.arm,
                       Layer(v.types[p[2]].arm, v, p)>>,
                     [location |-> p[1], vmSize |-> Machine(v, p), imageId |-> image.id])

\* worker-manager-config, whose maxCapacity may be keyed by the placement.
PlaceAttributes(v, p) ==
  IF Kind(v) = "azure" THEN Location(v, p) ELSE [zone |-> p[1]]
MaxCapacity(v, p) ==
  IF "maxCapacity" \in DOMAIN v.manager
    THEN EvaluateKeyedBy(v.manager.maxCapacity, PlaceAttributes(v, p)) ELSE NoValue
Manager(v, p) ==
  Merge(<<[capacityPerInstance |-> v.types[p[2]].capacity], v.manager,
          IF IsNone(MaxCapacity(v, p)) THEN <<>> ELSE [maxCapacity |-> MaxCapacity(v, p)],
          v.types[p[2]].manager>>)

\* _resolve_defaults, and what the pool and the type put over them.
Inherited(v, defaults) ==
  EvaluateKeyedBy(defaults, [implementation |-> Implementation(v)[1], provider |-> v.provider])
WorkerConfig(v, p, defaults) ==
  Merge(<<Inherited(v, defaults).lit, v.config>>
        \o IF Kind(v) = "azure" THEN <<>> ELSE <<v.types[p[2]].config>>
        \o IF Kind(v) # "azure" /\ IsDockerWorker(v)
             THEN <<[capacity |-> Manager(v, p).capacityPerInstance]>> ELSE <<>>)

\* _populate_launch_config_id; a hash stands for what was hashed, and is not one
\* that is given.
LaunchId(name, launch) ==
  IF "launchConfigId" \in DOMAIN launch.manager
    THEN [given |-> launch.manager.launchConfigId] ELSE [pool |-> name, hash |-> launch]

\* Without a template: the machine and the image (on google, if a disk is made of
\* it), unless the type's launchConfig gives others, and the disks. On azure the
\* whole vm size stands where its launchConfig gives no machine.
StartsImage(v, p) == Kind(v) = "google" => \E d \in ToSet(v.types[p[2]].disks) : d.image
Given(v, p)     == IF Kind(v) = "google" THEN <<>> ELSE v.types[p[2]].launch
PlainLaunch(v, p, image) ==
  LET or(f, value) == IF f \in DOMAIN Given(v, p) THEN Given(v, p)[f] ELSE value
  IN [machine |-> or("machine", Machine(v, p)),
      image   |-> or("image", IF StartsImage(v, p) THEN image.id ELSE NoId),
      disks   |-> Disks(v.types[p[2]].disks, p[1]),
      vmSize  |-> IF Kind(v) = "azure" /\ "machine" \notin DOMAIN Given(v, p)
                    THEN <<v.types[p[2]]>> ELSE <<>>]

\* With one: its parameters, and the resource group, named after the pool and, if
\* split, the location. Neither machine nor image, but as parameters.
ArmLaunch(v, p, image) ==
  [deployment |-> Arm(v, p, image).lit, group |-> <<v.name, IF v.perRegion THEN p[1] ELSE "">>]

\* What is hashed. On azure the tags have the image's deployment id.
Launch(v, p, file, defaults) ==
  LET image == ImageFor(file, v.image, v.provider)
  IN [place   |-> p[1],
      tags    |-> IF Kind(v) = "azure" THEN <<image.deployment>> ELSE <<>>,
      starts  |-> IF IsNone(Arm(v, p, image)) THEN PlainLaunch(v, p, image)
                                              ELSE ArmLaunch(v, p, image),
      manager |-> Manager(v, p),
      config  |-> WorkerConfig(v, p, defaults)]

PoolRaises(v, file, defaults) ==
  /\ v.provider \in DOMAIN Providers
  /\ \/ UnknownImage(file, v.image)
     \/ /\ Kind(v) = "aws" => Placements(v) # {}   \* it looks where it places workers
        /\ NotForCloud(file, v.image, v.provider)
     \/ IsRaised(Inherited(v, defaults))
     \/ Kind(v) # "azure" /\ ~IsDockerWorker(v) /\ \E i \in DOMAIN v.types : v.types[i].capacity # 1
     \/ Kind(v) = "aws" /\ Len(v.types) > 1 /\ ZonesOf(v) # {}    \* dicts have no order
     \/ \E p \in Placements(v) :
          \/ IsRaised(MaxCapacity(v, p))
          \/ IsRaised(Arm(v, p, ImageFor(file, v.image, v.provider)))

\* The resource made of a variant. Of a provider that environments.yml does not
\* know the config is taken as it is. (for is the type a launch config is made
\* for, for the properties to speak of.)
WorkerPool(v, file, defaults) ==
  [name   |-> v.name, provider |-> v.provider,
   launch |-> IF v.provider \notin DOMAIN Providers THEN <<>>
              ELSE [p \in Placements(v) |->
                      LET launch == Launch(v, p, file, defaults)
                      IN [id |-> LaunchId(v.name, launch), is |-> launch, for |-> Machine(v, p)]]]

-----------------------------------------------------------------------------
(* The process.                                                            *)

Init ==
  /\ anchors = Anchors
  /\ images \in ImageFiles
  /\ pass = "idle" /\ todo = <<>> /\ made = <<>> /\ passes = 0

\* update_resources, or the check of the images, goes through the pools.
StartPass(kind) ==
  /\ pass \in {"idle", "generated", "checked"}
  /\ passes < MaxPasses
  /\ passes' = passes + 1
  /\ pass' = kind
  /\ todo' = FlattenSeq([i \in DOMAIN Pools |-> [v \in DOMAIN Pools[i].variants |-> <<i, v>>]])
  /\ made' = <<>>
  /\ UNCHANGED <<anchors, images>>

PoolOf(pv)     == Pools[pv[1]]
AttributesOf(pv) == Attributes(PoolOf(pv), pv[2])
VariantOf(pv, cells) == Variant(PoolOf(pv), AttributesOf(pv), cells)

\* The machine types of a variant, before they are formatted. A pool names only
\* anchors there are, and no machine twice, whatever its templates are filled with.
Machines(pv) ==
  IF Borrows(PoolOf(pv), AttributesOf(pv))
    THEN [i \in DOMAIN AttributesOf(pv).instance_types |->
            Anchors[AttributesOf(pv).instance_types[i]].machine.lit]
    ELSE [i \in DOMAIN PoolOf(pv).types |->
            OwnTypes(PoolOf(pv), AttributesOf(pv))[i].machine.lit]
Extends(stem, other) == stem = other \/ (stem # <<>> /\ stem = Append(other, Last(stem)))
ASSUME MachinesAssumption ==
  \A i \in DOMAIN Pools : \A v \in DOMAIN Pools[i].variants :
    LET pv == <<i, v>>
    IN ~VariantRaises(PoolOf(pv), AttributesOf(pv)) =>
         /\ Borrows(PoolOf(pv), AttributesOf(pv)) =>
              ToSet(AttributesOf(pv).instance_types) \subseteq DOMAIN Anchors
         /\ \A j \in DOMAIN Machines(pv) : Machines(pv)[j] \in Text
         /\ \A j, k \in DOMAIN Machines(pv) :
              j # k => ~Extends(Machines(pv)[j].stem, Machines(pv)[k].stem)

\* The generator has yielded a variant, of which result was made.
Advance(result) ==
  /\ anchors' = Formatted(PoolOf(Head(todo)), AttributesOf(Head(todo)), anchors)
  /\ made' = [pv \in DOMAIN made \cup {Head(todo)} |->
                IF pv = Head(todo) THEN result ELSE made[pv]]
  /\ todo' = Tail(todo)
  /\ UNCHANGED <<images, pass, passes>>

Yields == todo # <<>> /\ ~VariantRaises(PoolOf(Head(todo)), AttributesOf(Head(todo)))

\* update_resources. With an image in a circle of aliases it never goes on.
Generate ==
  /\ pass = "generate" /\ Yields
  /\ LET v == VariantOf(Head(todo), anchors)
     IN /\ ~InCircle(images, v.image) /\ ~PoolRaises(v, images, Defaults)
        /\ Advance(WorkerPool(v, images, Defaults))

\* check_worker_images_are_used looks at the variants only.
Collect ==
  /\ pass = "check" /\ Yields
  /\ Advance(VariantOf(Head(todo), anchors).image)

\* An exception, of the generator or of make_worker_pool, ends the pass and,
\* when it generates, the process.
Raises ==
  \/ ~Yields
  \/ /\ pass = "generate"
     /\ ~InCircle(images, VariantOf(Head(todo), anchors).image)
     /\ PoolRaises(VariantOf(Head(todo), anchors), images, Defaults)

Raise ==
  /\ pass \in {"generate", "check"} /\ todo # <<>>
  /\ Raises
  /\ pass' = IF pass = "check" THEN "idle" ELSE "raised"
  /\ todo' = <<>> /\ made' = <<>>
  /\ UNCHANGED <<anchors, images, passes>>

EndPass ==
  /\ pass \in {"generate", "check"} /\ todo = <<>>
  /\ pass' = IF pass = "generate" THEN "generated" ELSE "checked"
  /\ UNCHANGED <<anchors, images, todo, made, passes>>

Next ==
  \/ \E kind \in {"generate", "check"} : StartPass(kind)
  \/ Generate \/ Collect \/ Raise \/ EndPass

Spec == Init /\ [][Next]_poolVars

\* Mutant: an alias counts as a use whether or not it is used itself.
UsedByAnyAlias(file, named) ==
  named \cup {file[i].alias : i \in {j \in DOMAIN file : file[j].alias # NoAlias}}

\* The check goes through the images once, in the order of the file.
UsedImages(file, named) ==
  FoldLeft(LAMBDA used, image : IF image.alias = NoAlias \/ image.name \notin used THEN used
                                ELSE used \cup {image.alias},
           named, file)
UnusedImages(file, named) == {file[i].name : i \in DOMAIN file} \ UsedImages(file, named)

-----------------------------------------------------------------------------
\* A generated pool depends on its own definition, its variant and the image it
\* names and on nothing that other pools, earlier variants or earlier passes did
\* to the objects they share - unless it borrows a type whose machine type is a
\* template, which the first to use it fills in for all (line 851).
BorrowsTemplate(pv) ==
  /\ Borrows(PoolOf(pv), AttributesOf(pv))
  /\ \E a \in ToSet(AttributesOf(pv).instance_types) : Anchors[a].machine.lit.hole # NoHole
OfItsOwnDefinition ==
  pass \in {"generate", "generated"} =>
    \A pv \in DOMAIN made :
      \/ BorrowsTemplate(pv)
      \/ made[pv] = WorkerPool(VariantOf(pv, Anchors), images, Defaults)

\* No two launch configs of a pool have one id, unless it was given, or both are
\* in one place and an ARM template or a launchConfig starts the machine of another
\* type than the one it was written for. Every disk of a launch config is in the
\* zone of its worker, told once, although disks may be one object in YAML.
Generated == IF pass \in {"generate", "generated"} THEN {made[pv] : pv \in DOMAIN made} ELSE {}
MachineOf(starts) ==
  IF "machine" \in DOMAIN starts THEN starts.machine ELSE starts.deployment.parameters.vmSize
Replaced(launch) == MachineOf(launch.is.starts) # launch.for
IdsApart(pool) ==
  \A p, q \in DOMAIN pool.launch :
    pool.launch[p].id = pool.launch[q].id =>
      \/ p = q \/ "launchConfigId" \in DOMAIN pool.launch[p].is.manager
      \/ p[1] = q[1] /\ \E x \in {p, q} : Replaced(pool.launch[x])
DisksInPlace(pool) ==
  \A p \in DOMAIN pool.launch :
    LET starts == pool.launch[p].is.starts
    IN "disks" \in DOMAIN starts => \A i \in DOMAIN starts.disks : starts.disks[i].zones = <<p[1]>>
LaunchesPlaced == \A pool \in Generated : IdsApart(pool) /\ DisksInPlace(pool)

\* When the check of the images passes, every image is one that a pool names,
\* or that following aliases from such a one leads to.
Reached(file, named) ==
  FoldLeft(LAMBDA seen, i : seen \cup {Follow(file, n) : n \in seen}, named, file)
UnusedImagesFound ==
  pass = "checked" /\ UnusedImages(images, {made[pv] : pv \in DOMAIN made}) = {} =>
    {images[i].name : i \in DOMAIN images} \subseteq Reached(images, {made[pv] : pv \in DOMAIN made})
=============================================================================
