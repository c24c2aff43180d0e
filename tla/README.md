# TLA+ models of apiregister-gen's API model builder

The models cover `src/cmd/apiregister-gen/generators/parser.go`. That file
holds the `APIsBuilder`, which reads a gengo type universe and builds the
model the code templates are rendered from. The end of the file also holds
the `build executables` command (`RunBuildExecutables`).

## The system

`NewAPIsBuilder` (lines 179-192) runs six phases in order. They are one
sequential pass each, with no concurrency. Every error is fatal (`log.Fatal`
or `panic`).

| Part | Code | State it changes |
|---|---|---|
| Package scan | `ParsePackages` 532-553 | VersionedPkgs, UnversionedPkgs, APIsPkg (panics on two apis roots) |
| Domain | `ParseDomain` 556-567 | Domain (panics when missing) |
| Group names | `ParseGroupNames` 519-529 | GroupNames (skips packages without files) |
| Declaration indexer | `ParseIndex` 264-335 | ByGroupVersionKind, ByGroupKindVersion, SubByGroupVersionKind |
| Subresource resolver | `GetSubresources` 337-370, `IsInPackage`, `GetNameAndImport` | a resource's Subresources (fatal on duplicate path) |
| Tag grammar | `ParseResourceTag`, `ParseControllerTag`, `ParseSubresourceTag` 391-481 | pure |
| Controller index | `ParseControllers` 194-204 | Controllers |
| Model assembler | `ParseAPIs` 206-260 | APIs tree, per group `UnversionedResources`, `Pkg`, and then `ParseStructs` |
| Struct graph | `ParseStructs` 569-612, `DoType` 614-686 | a group's `Structs` |
| Build command | `RunBuildExecutables` 743-789 | the process's external commands |

Nondeterminism in this sequential program comes from two sources:
- Go map iteration order. This covers versions, kinds and the subresource
  type index, all of which seed the struct work-list, and the order of
  `ParseAPIs`.
- The input universe.

Both are modelled as choices in `Init`.

## Modules

- **StructGraph** (`ParseStructs` + `DoType`, one API group). It has these
  variables:
  - `members`: the input member lists, chosen in `Init` from `MemberChoices`.
  - `remaining`: the work-list.
  - `done`: the set of bare names.
  - `structs`: `apigroup.Structs`.
  - `flattened`: a history variable holding the types `DoType` ran on.

  `Init` seeds the work-list in every Go map order: resources first, then
  subresource types. One loop iteration is one of two actions:
  - `SkipDone`: the bare name is already done.
  - `Flatten`: mark the name done, run `DoType`, set the GenClient and
    GenDeepCopy flags, append the struct, and enqueue the discovered types.

  The swap-with-last pop is `PopRest`. `DoType`'s field resolution
  (`UnversionedRef`) computes `path.Dir`, `path.Base`, `types.Type.String()`
  and the two `strings.Replace` calls on token sequences. The records
  `Struct` and `Field` give the shapes of `codegen.Struct` and
  `codegen.Field` (lines 70-90), and `TypeOK` checks every struct against
  them. `GenClient` and `GenDeepCopy` are the tag tests of lines 493-502.
  `Sigils` is the `*`/`[]`/`map[string]` prefix that `Type.String()` writes
  before an unnamed type's element.
- **UnversionedStructs** is the abstract specification: a catalogue of types
  that grows one type at a time. A type may join when it is a seed, or is
  referenced by a catalogued type, and its key is not yet catalogued.
  StructGraph maps onto it with `catalogue <- flattened`, `Key <- Name`
  (the bare name) and `refs <- Refs` (the types `DoType` enqueues).
- **MCStructGraph** instantiates group `g` in versions v1 and v2:
  - Widget in both versions, plus WidgetSpec in both versions.
  - Extra (v2) and the subresource type ScaleRequest (v1).
  - metav1 ObjectMeta, a type of another group, `string`, `*WidgetSpec`,
    `*Extra` and `[]*Extra`.

  Every struct of `g` takes any subsequence of its candidate members, so one
  run covers 4096 member graphs. These include same-named types across
  versions, metav1 embedding, cross-group members and indirections.
- **TagParser** holds the three tag parsers as operators on token sequences.
  `Split` and `RemoveAll` are `strings.Split` and `strings.Replace(...,-1)`.
  A `log.Fatalf` becomes the value `Malformed`.
- **TagGrammar** writes every tag of at most `MaxTagLen` tokens, one token
  per step. It compares the parsers with a declarative reference: cut
  positions, exactly one "=", last pair wins, and the community
  `ReplaceAllSubSeqs` for the parent strip.
- **GoPath** holds `path.Dir`, `path.Base`, `strings.Join(…, "/")` and
  `filepath.Base` on package paths kept as sequences of segments. StructGraph
  and APIsBuilder both use it.
- **APIsBuilder** models `NewAPIsBuilder` from `ParsePackages` to the end of
  `ParseAPIs`, one declaration or one group per step. It has these variables:
  - `tags`: the comment tags of every declaration, chosen in `Init`.
  - `parsed`: the pure parse of those tags (resource tag, subresource list,
    controller tag), computed once in `Init` from the TagParser operators.
  - `order`: the universe's declarations in a Go map order, chosen in `Init`
    from `UniverseChoices`.
  - `pc`, `i` and `failure`: the phase, the loop index, and the fatal error
    the process ended with.
  - the builder's fields: `versionedPkgs`, `unversionedPkgs`, `apisPkg`,
    `domain`, `groupNames`, `byGVK`, `byGKV`, `subByGVK`, `controllers`,
    `groups`.

  Its actions follow the code:
  - `ParsePackagesStep` (a second apis root panics).
  - `ParseDomain` and `ParseGroupNames`.
  - `ParseIndexStep`: the subresource type index, the resource tag,
    `GetSubresources` with the duplicate-path check, strategy defaulting, and
    both indices.
  - `ParseControllersStep`.
  - `ParseAPIsGroup`: one group in any order, with its versions in any order.
    Each version overwrites the group package and the unversioned resources,
    and a nil group package is the failure `NilDereference`.
  - `ParseAPIsReturn`.

  A fatal error sets `pc` to `Failed`. The records `APIResource`,
  `APISubresource` and `Controller` give the shapes of the codegen types
  (lines 44-158), and `TypeOK` checks the indices against them. The tag
  accessors `GetResourceTag`, `GetControllerTag` and `GetSubresourceTags`
  (lines 484-516) read a declaration's parsed tags.
- **APIsModel** composes the two: it extends APIsBuilder and instantiates
  StructGraph as `SG`. `ParseAPIsGroupStructs` assembles a group as
  `ParseAPIsGroup` does and then starts `ParseStructs` on it (`pc` is
  `ParseStructs`). Its seeds come from the group just assembled: every
  resource of every version, then the group's entries in
  `SubByGroupVersionKind`, each in any map order (`StructSeeds`).
  `ParseStructsStep` is one `SkipDone` or `Flatten` of `SG`, and
  `ParseStructsReturn` stores the group with its `Structs` in `apis.Groups`.
  The declarations are StructGraph types, and the resource declarations are
  the `GenClient` types.
- **MCAPIsModel** has groups `g` (Widget in v1 and v2, ScaleRequest in v1)
  and `h` (Gadget). WidgetSpec v1 refers to Gadget in the other group, and
  Widget v2 holds WidgetSpec v2 by value or by pointer. The universe holds
  both Widget versions, only v1, or only v2, and Widget v1 has one or two
  subresources.
- **MCAPIsBuilder** sets up the universe:
  - two apis roots (`x/apis`, with a `+domain=` comment, and `y/apis`,
    without one);
  - group `g` under `x/apis` with Widget in v1 and v2 and the subresource
    type ScaleRequest;
  - a second group also named `g`, under `y/apis`, with Gadget;
  - a controller package.

  Tag choices give each declaration a valid, missing or malformed tag: a
  resource tag `path` without `=`, a subresource tag `scale` without `=`, and
  a controller tag `kind` without `=`. For Widget v1, the choices include a
  subresource list that names the same path twice, once with the parent
  prefix and once without.
- **BuildExecutables** models `RunBuildExecutables` over repeated invocations
  of the command:
  - `Invoke` picks the flags `--generate`, `--goos`, `--goarch` and
    `--output`, and the GOOS/GOARCH the process inherits (`environ`).
  - `Generate` is the optional `RunGenerate`.
  - `BuildApiserver` and `BuildControllerManager` are the two `go build`s.
    Each computes its own `c.Env`, as the code does in two separate blocks:
    `ApiserverEnv` (lines 751-760) and `ControllerManagerEnv` (774-780).
    `Setenv` is the effect of appending `GOOS=`/`GOARCH=` to the inherited
    environment: a non-empty flag overrides it, an empty one leaves it.

  Each step either succeeds or ends the process (`Fatal`, for `log.Fatal`).
  Each binary on disk records which invocation built it and the
  CGO_ENABLED/GOOS/GOARCH it was built with. `""` for a flag is its default;
  cobra's `StringVar` overwrites the variable initialisers "linux"/"amd64".
- **MCBuildExecutables** gives the inherited environment every combination
  of GOOS unset or `linux` and GOARCH unset or `amd64`.

## Runs

| Run | Module / cfg | Result | What it shows |
|---|---|---|---|
| structgraph_safety | MCStructGraph / StructGraph.cfg | pass (88k states) | `TypeOK` (including: `done` is the bare names of the flattened types, one struct per flattened type); `CompleteOnReturn` (the pops lose no seed or enqueued type); `CatalogueRefinement` (ParseStructs implements UnversionedStructs) |
| structgraph_reachable | StructGraphReach.cfg | violation | `ReachableFlattened`: if v1.Widget pops first, v2.Widget is skipped and the types only v2.Widget references get no struct (in TLC's trace WidgetSpec v2, when v1.Widget has no Spec member; Extra the same way). The result depends on the pop order, contrary to spec §9. |
| structgraph_field_targets | StructGraphFieldTargets.cfg | violation | `FieldTargetsFlattened`: a `*WidgetSpec` or `[]*Extra` field names an unversioned struct that is never generated, because `GetGroup` of an unnamed type is "." (line 681). |
| structgraph_unversioned | StructGraphUnversioned.cfg | pass (6k states) | `UnversionedTypesResolved`: for every member whose innermost named type lies in another package, the unversioned field's type string and import are the spec's (§9): the `*`/`[]`/`map` sigils, then the group alias and name, imported from the group directory; metav1 types keep `metav1`. Covers `T`, `*T` and `map[string]T` of another group. |
| structgraph_unversioned_nested | StructGraphUnversionedNested.cfg | violation | `UnversionedTypesResolved`: a `[]*Other` field gets type `[]*example.io/apis/h/v1.Other` and import `.`: `UnversionedRef` (line 661) replaces only the element's path and `GetGroup` of an unnamed type is `.` |
| structgraph_unversioned_metav1_ptr | StructGraphUnversionedMetaPtr.cfg | violation | `UnversionedTypesResolved`: a `*metav1.ObjectMeta` field is typed `*meta.ObjectMeta` and imports `k8s.io/apimachinery/pkg/apis/meta`: the metav1 case (line 643) tests the pointer's own package, which is empty |
| tag_grammar | TagGrammar / TagGrammar.cfg | pass (271k tags) | `ParsersMatchReference`: the parsers fail exactly on malformed tags and otherwise agree with the reference, for a parent resource `w` and for a parent without `path=` (empty Resource, where the subresource parser strips every `/`, line 477) |
| apisbuilder | MCAPIsBuilder / APIsBuilder.cfg | pass (46k states) | `SubresourcePathsUnique`: no resource keeps two subresources with the same stripped path. `GroupPackageConsistent`: the group package is the directory of its versions' packages. |
| apisbuilder_no_group_dir | APIsBuilderNoGroupDir.cfg | violation | `FailuresDiagnosed`: when the group directory has no Go files, `ParseAPIs` dereferences a nil `Pkg` (line 248) rather than ending in one of the fatal errors of spec §7. This is a code bug. |
| apismodel | MCAPIsModel / APIsModel.cfg | pass (10k states) | `GeneratedStructsComplete`: when `NewAPIsBuilder` returns, each group's `Structs` hold a GenClient+GenDeepCopy struct for each unversioned kind and a GenDeepCopy struct for each subresource request type, whichever version and map order wins. `ModelTermination`: the builder with a `ParseStructs` run per group returns or fails. |
| build_executables | MCBuildExecutables / BuildExecutables.cfg | pass (822k states) | `SuccessfulBuildConsistent`: after a successful exit, the output directory holds both binaries of that invocation, built by the two separate env blocks with the same CGO_ENABLED=0/GOOS/GOARCH, the GOOS/GOARCH the flags asked for when given, and, with `--generate`, from code it regenerated. This holds for any flags, inherited environment and earlier failures. |

Each property of a passing run has a mutant in PROJECT.json: a plausible
bug in the code that TLC then finds.

## Bounds

- Two versions are enough to make two types share a bare name.
- Depth-2 member chains (Widget → WidgetSpec → Other) exercise both
  enqueueing and the cross-group cut-off.
- `[]*Extra` is the only shape with two levels of indirection.
- Tags of 5 tokens over 9 words and 3 separators cover every pair of
  elements with every key, and the parent prefix `w/` or, for a parent
  without `path=`, a bare `/`.
- APIsBuilder uses five declarations in every order, with three universes:
  - the widget group alone;
  - the widget and gadget groups, under two apis roots;
  - the gadget group alone.

  These bounds reach the fatal paths for two apis roots, a missing domain,
  a missing or malformed resource, subresource or controller tag, a
  duplicate subresource path, multi-version groups, and (in the
  `apisbuilder_no_group_dir` run) the nil group package. They do not reach
  the missing apis package (line 560): that needs a universe whose apis
  root has no Go files, and the universe's packages are one constant per
  cfg.
- The unversioned-reference runs give WidgetSpec v1 any subset of a value,
  a pointer and a map member of another group's type: each shape of
  `Type.String()` that line 661 handles once. The two violation runs add one
  member each (`[]*Other`, `*metav1.ObjectMeta`).
- MCAPIsModel is the smallest project where a group has two versions of a
  kind, a subresource type, and a member in another group, so the
  composed run covers map orders deciding the unversioned resource and the
  first-popped struct of a shared name.
- BuildExecutables checks three invocations over two output directories,
  three `--goos` and two `--goarch` values, and four inherited
  environments. That is enough for a failed invocation to fall between two
  successful ones that write to the same or to different directories, and
  for a flag and an inherited value to disagree in either variable.

## Fairness

`ParseStructs` and `NewAPIsBuilder` are sequential loops with no blocking.
Weak fairness of their `Next` therefore says only that the program keeps
running while it has a step to take.

Termination is checked in the composition (`ModelTermination`), where the
work-list of `ParseStructs` grows as types are flattened, so its ending
depends on the pop shrinking the list and on the done set. APIsBuilder
computes the pure tag parses once, in `Init`, because TLC's evaluation of
`ENABLED` over them is expensive.

Completeness of the abstract specification is checked as the state
invariant `CompleteOnReturn`, because the loop ends exactly when the
work-list is empty.

BuildExecutables makes no liveness claim, since an external build may fail
at any step.

## Not modelled

- The gengo universe loading and the templates are external libraries and
  text output, so they are not modelled. The model takes the universe as
  CONSTANTS.
- MCAPIsModel has no non-resource type named like a resource of another
  version, so the GenClient flag lost to the bare-name dedup (line 598) is
  stated by `GeneratedStructsComplete` but not reached by its instance; the
  pop-order dependence of the dedup itself is the `structgraph_reachable`
  violation.
- A failed controller-manager build leaves a mixed output directory. The
  model reaches this, but no property states it, because the command does
  not promise otherwise.
- Which version's resource becomes a group's unversioned resource of a
  kind (line 250) depends on the map order. Spec 4.4 documents this as a
  known limitation to preserve, so no property claims a winner; the models
  keep every order.
- `RunGenerate`'s own effects: a failed regeneration leaves `generated`
  unchanged, because no property depends on partially regenerated code.
