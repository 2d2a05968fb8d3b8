------------------------------- MODULE MCReview -------------------------------
(***************************************************************************)
(* A small worker-pools.yml and the worker images it may go with; tasks of  *)
(* three decision tasks of Firefox CI.                                      *)
(***************************************************************************)
EXTENDS Review

Word(w)       == [stem |-> <<w>>, hole |-> NoHole]
Words(w, a)   == [stem |-> <<w>>, hole |-> a]
By(attr, alts) == [by |-> attr, alts |-> alts]

Disk(object) == [object |-> object, image |-> object = "boot", zones |-> <<>>]
Type(machine, disks) ==
  [machine |-> machine, disks |-> disks, capacity |-> 1, manager |-> <<>>,
   config |-> <<>>, arm |-> NoValue, launch |-> <<>>]

\* c2-standard has a boot disk and one scratch disk object in two places.
MCAnchors ==
  [c2 |-> Type(Lit([stem |-> <<"c2", "standard">>, hole |-> NoHole]),
               <<Disk("boot"), Disk("scratch"), Disk("scratch")>>),
   n2 |-> Type(Lit([stem |-> <<"n2", "highmem", "8", "lssd">>, hole |-> NoHole]), <<Disk("boot")>>)]

Pool0 ==
  [name |-> Word("misc"), provider |-> Lit("gcp"), image |-> Lit(Word("base")),
   implementation |-> NoValue, places |-> Lit({"east"}), arm |-> NoValue,
   perRegion |-> FALSE, vmSizes |-> FALSE, types |-> <<>>,
   config |-> <<>>, manager |-> <<>>, attributes |-> <<>>, variants |-> <<<<>>>>]

\* Three variants at two levels, whose types are anchors.
Linux ==
  [Pool0 EXCEPT
     !.name = Words("linux", "pool-group"),
     !.provider = By("chain-of-trust", ("trusted" :> Lit("gcp3") @@ "default" :> Lit("gcp"))),
     !.image = By("suffix", (".*big" :> Lit(Word("base")) @@ "default" :> Lit(Word("current")))),
     !.implementation = Lit(Words("generic-worker", "chain-of-trust")),
     !.places = Lit({"east", "west"}),
     !.attributes = ("chain-of-trust" :> ""),
     !.variants =
       <<("pool-group" :> "gecko-1" @@ "suffix" :> "" @@ "instance_types" :> <<"c2", "n2">>),
         ("pool-group" :> "gecko-3" @@ "chain-of-trust" :> "trusted" @@ "suffix" :> ""
            @@ "instance_types" :> <<"c2">>),
         ("pool-group" :> "try" @@ "suffix" :> "-big" @@ "instance_types" :> <<"n2">>)>>]

\* Five vm sizes, the first of which decides the image, in two locations. Without
\* an ARM template D8 and D4 start as their launchConfigs say; the layer of D16
\* puts another vm size in its place, that of D64 another image.
Windows ==
  [Pool0 EXCEPT
     !.name = [stem |-> <<"windows", "gecko-t">>, hole |-> NoHole], !.provider = Lit("azure"),
     !.image = By("vmSize", ("D32" :> Lit(Word("base")) @@ "default" :> Lit(Word("next")))),
     !.implementation = Lit(Word("generic-worker/windows")),
     !.places = Lit({"east-us", "west-us"}),
     !.arm = Lit([spec |-> "template", parameters |-> [priority |-> "Regular"]]),
     !.perRegion = TRUE, !.vmSizes = TRUE,
     !.types = <<Type(By("suffix", ("x" :> Lit(Word("D96")) @@ "default" :> Lit(Word("D32")))),
                      <<>>),
                 [Type(Lit(Word("D8")), <<>>) EXCEPT !.arm = Lit(OptOut),
                                                     !.launch = [machine |-> <<"D8">>]],
                 [Type(Lit(Word("D4")), <<>>) EXCEPT !.arm = Lit(OptOut),
                                                     !.launch = [machine |-> <<"D8">>]],
                 [Type(Lit(Word("D16")), <<>>) EXCEPT
                    !.arm = Lit([spec |-> NoSpec, parameters |-> [vmSize |-> <<"D32">>]])],
                 [Type(Lit(Word("D64")), <<>>) EXCEPT
                    !.arm = Lit([spec |-> NoSpec, parameters |-> [imageId |-> "pinned"]])]>>,
     !.manager = [maxCapacity |-> By("location", ("east-us" :> Lit(5) @@ "default" :> Lit(9)))]]

\* A docker-worker pool with two tasks to a worker and a given id, and a pool of
\* machines that worker-manager does not create.
Docker ==
  [Pool0 EXCEPT
     !.name = Word("docker"), !.provider = Lit("aws"), !.image = Lit(Word("other")),
     !.types = <<[Type(Lit(Word("m5")), <<>>) EXCEPT !.capacity = 2]>>,
     !.manager = [launchConfigId |-> "lc-docker"]]
Static == [Pool0 EXCEPT !.name = Word("static"), !.provider = Lit("static")]

MCPools == <<Linux, Windows, Docker, Static>>

MCProviders == [gcp |-> "google", gcp3 |-> "google", azure |-> "azure", aws |-> "aws"]
MCZones     == [east |-> {"east-b", "east-c"}, west |-> {"west-a"}]
MCInvalid   == {[zones |-> {"west-a"}, families |-> {"n2"}, profiles |-> {}, suffixes |-> {"lssd"}],
                [zones |-> {"east-b"}, families |-> {"c2"}, profiles |-> {"highcpu"}, suffixes |-> {}],
                [zones |-> {"east-c"}, families |-> {"m5"}, profiles |-> {}, suffixes |-> {}]}
MCDefaults  == By("implementation", ("docker-worker" :> Lit([idle |-> 120])
                                      @@ "default" :> Lit([idle |-> 15])))
MCMatches   == {<<".*big", "-big">>}

\* Two images and three aliases, in two orders; one of the images may be missing
\* from some clouds.
Image(name, alias, clouds) == [name |-> <<name>>, alias |-> alias, clouds |-> clouds]
On(clouds, name) == [c \in clouds |-> [id |-> name, deployment |-> name, arm |-> NoValue]]
Aliases == {"current", "next", "old"}
FileOf(order, alias, clouds) ==
  [i \in DOMAIN order |->
     CASE order[i] = "base"    -> Image("base", NoAlias, On(clouds, "base"))
       [] order[i] = "other"   -> Image("other", NoAlias, On(DOMAIN MCProviders, "other"))
       [] order[i] \in Aliases -> Image(order[i], <<alias[order[i]]>>, <<>>)]
Order == <<"base", "other", "current", "next", "old">>
MCImageFiles ==
  {FileOf(order, alias, clouds) :
     order \in {Order, Reverse(Order)},
     alias \in [Aliases -> {"base", "other"} \cup Aliases],
     clouds \in {DOMAIN MCProviders, {"gcp", "azure"}}}
MCDeployedImages ==
  FileOf(Order, [current |-> "base", next |-> "current", old |-> "other"], DOMAIN MCProviders)

Task0 ==
  [name |-> "", kind |-> "none", platform |-> "linux", provisioner |-> "gecko-3",
   workerType |-> "linux", admin |-> FALSE, image |-> NoTask, fetches |-> <<>>,
   dependencies |-> {}]
Of(task, artifact, public) == [task |-> task, artifact |-> artifact, public |-> public]

\* The two wanted tasks of a graph. One fetches what is built for it and, of a
\* task that is not run again, what is mirrored for it; the other fetches a
\* private artifact, and a public one of a task that is. Two tasks upstream have
\* one name, and one has expired. The third graph's fetches of both clusters.
MCTasks ==
  [test1   |-> [Task0 EXCEPT !.name = "test", !.kind = "all-pipeline", !.image = "image1",
                  !.fetches = <<Of("build1", "build", TRUE), Of("dataset", "data", TRUE)>>,
                  !.dependencies = {"build1", "dataset", "image1"}],
   test2   |-> [Task0 EXCEPT !.name = "test", !.kind = "all-pipeline", !.image = "image2",
                  !.workerType = "windows", !.provisioner = "gecko-t",
                  !.fetches = <<Of("build2", "build", TRUE)>>,
                  !.dependencies = {"build2", "image2"}],
   eval1   |-> [Task0 EXCEPT !.name = "eval", !.kind = "all-pipeline", !.provisioner = "gecko-1",
                  !.fetches = <<Of("dataset", "secret", FALSE), Of("build2", "build", TRUE)>>,
                  !.dependencies = {"build2", "dataset"}],
   bench   |-> [Task0 EXCEPT !.name = "bench", !.kind = "all-pipeline",
                  !.fetches = <<Of("build2", "build", TRUE), Of("dataset", "data", TRUE)>>,
                  !.dependencies = {"build2", "dataset"}],
   build1  |-> [Task0 EXCEPT !.name = "build", !.image = "image1",
                  !.dependencies = {"image1", "upload"}],
   build2  |-> [Task0 EXCEPT !.name = "build"],
   upload  |-> [Task0 EXCEPT !.name = "upload"],
   lost    |-> [Task0 EXCEPT !.name = "lost"],
   dataset |-> [Task0 EXCEPT !.name = "dataset"],
   image1  |-> [Task0 EXCEPT !.name = "image"],
   image2  |-> [Task0 EXCEPT !.name = "image"],
   phone   |-> [Task0 EXCEPT !.name = "phone", !.kind = "all-pipeline", !.platform = "android-hw"],
   metal   |-> [Task0 EXCEPT !.name = "metal", !.kind = "all-pipeline",
                  !.provisioner = "releng-hardware"],
   root    |-> [Task0 EXCEPT !.name = "root", !.kind = "all-pipeline", !.admin = TRUE]]
MCGraphs ==
  [decision1 |-> <<"phone", "test1", "build1", "eval1">>,
   decision2 |-> <<"metal", "root", "test2", "build2">>,
   decision3 |-> <<"bench">>]
MCAncestors ==
  [test1 |-> <<"build1", "image1", "upload", "dataset">>,
   eval1 |-> <<"build2", "dataset", "lost">>,
   test2 |-> <<"build2", "image2">>,
   bench |-> <<"build2", "dataset">>]
MCIncludeDeps ==
  ("firefoxci-artifact" :> {"test", "eval", "build", "bench", "upload", "lost"}
     @@ "integration-test" :> {"test", "eval", "build", "bench", "lost"})
MCLevelOne ==
  ("gecko-1" :> "gecko-1" @@ "gecko-3" :> "gecko-1" @@ "gecko-t" :> "gecko-t"
     @@ "releng-hardware" :> "releng-hardware")
===============================================================================
