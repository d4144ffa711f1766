# A TLA+ verification project for the FAIR Data Pipeline C++ API

The library (`src/`) lets a simulation record what it reads and writes in a
FAIR data registry. A program makes a pipeline from a `config.yaml`, asks it
for the paths of its inputs and outputs, writes its files, and finalises: each
file moves to a place named after its hash, and the registry, a REST service,
gets the rows that describe it. There is no transaction around any of this.
Every request is a separate HTTP call, other programs use the same registry
and data store at the same time, and an exception or a crash leaves behind
whatever was done before it. These modules are about that.

## 1. Inventory

| part | state | operations | talks to |
|---|---|---|---|
| `Config` (`objects/config.cxx`) | `config_data_`, the ids of the run's rows, `writes_`, `reads_`, `outputs_`, `inputs_` | constructor, `link_write`, `link_read`, `finalise` | `API`, the file system |
| `API` (`registry/api.cxx`) | the URL | `get_request`, `get_by_json_query`, `get_by_id`, `post`, `post_storage_root`, `post_file_type`, `patch` | the registry |
| `DataPipeline` (`fdp.cxx`) | its `Config` | forwards | `Config` |
| C interface (`fdp_c_api.cxx`) | structs on the heap, the caller's pointers | `fdp_init`, `fdp_finalise`, `fdp_link_read`, `fdp_link_write`, `fdp_set_log_level`, `fdp_get_log_level`, `fdp_log`, `from_c_struct`, `to_c_struct`, `delete_c_struct` | `DataPipeline`, `logger` |
| logging (`utilities/logging.cxx`) | one logger and its sink, each with a level | `get_logger`, `set_level`, the message builders | everyone |
| registry (external) | tables of rows | GET, POST, PATCH | |
| data store (external) | files and directories | create, write, rename, remove | |
| metadata helpers (`objects/metadata.cxx`) | none | hashes, temporary names | `Config` |
| semantic versions (`utilities/semver.*`) | a version | parse, print, compare, bump | nobody in `src/` |
| TOML files (`utilities/data_io.cxx`), distributions (`objects/distribution.cxx`) | a file | read and write components | programs |

What makes it hard, and what has to hold:

* **`finalise`** makes up to ten requests and one file operation per key.
  Between any two of them another process may do the same for the same name or
  the same content, and the process may die or a request fail, before or after
  the registry committed it. No row may refer to something that does not
  exist, no content may be lost, no published name may change its meaning, and
  a return without an exception must mean that everything is registered.
* **The constructor** makes fourteen requests, each with the answers of earlier
  ones in it; it throws at any of them and its rows stay. A code run must be
  whole and must describe the run that posted it.
* **`API::post`** turns "exists already" (409) into a second request, whose
  empty answer is not an error.
* **The C interface** passes ownership by pointers that it sometimes clears,
  and copies paths into buffers whose size it checks after the fact.
* **The logger** is made on first use from the environment.
* **A TOML file** is checked, opened and appended to without a lock, and whether
  the write succeeded is not looked at.
* **A version** has an order, an equality and two texts that do not quite agree
  with each other.

`PROJECT.json` lists these hazards line by line with the properties that would
catch them.

## 2. Modules

| module | models | notes |
|---|---|---|
| `Vocabulary` | names and contents | shared sets |
| `Registry` | the tables finalise uses | external; from the requests in `config.cxx` |
| `DataStore` | the files finalise uses | external, but for `link_write`'s directory |
| `Pipeline` | the life of a `Config` after construction, several at once | extends both; the core |
| `Catalogue` | the promise: contents are kept, names are write-once | abstract specification |
| `PipelineCatalogue` | `Pipeline` implements `Catalogue` | refinement mapping |
| `PipelineProofs` | theorems about `Pipeline`: the files | TLAPS |
| `PipelineRecordProofs` | theorems about `Pipeline`: the rows, the inputs, the published names, what is listed, what retries cost, the refinement of `Catalogue` | TLAPS |
| `Sessions` | `Pipeline` with the rows its constructor makes, and config files and scripts that users save | extends `Pipeline` |
| `SessionsProofs` | theorems about `Sessions` | TLAPS |
| `ApiClient` | `API::post` against tables with unique keys | 201, 409 and the query after it, refusals, failures |
| `ConfigInit` | the constructor of `Config`, several at once | extends `ApiClient` |
| `CodeRunLedger` | the promise: whole code runs, one after another | abstract specification |
| `ConfigInitLedger` | `ConfigInit` implements `CodeRunLedger` | refinement mapping |
| `ConfigInitProofs` | theorems about `ConfigInit` | TLAPS |
| `CodeRunProofs` | the refinement of `CodeRunLedger`, and what a code run says | TLAPS |
| `Logging` | the logger, its two levels, the C logging functions | |
| `CApi` | handles, structs, shared pointers, the link functions' checks and copy | extends `Logging` |
| `CApiProofs` | theorems about `CApi` | TLAPS |
| `TomlFile` | one TOML file that several processes write and read | point estimates and distributions |
| `TomlFileProofs` | theorems about `TomlFile` | TLAPS |
| `SemVer` | the version class: methods, comparisons, texts | pure operators and the calls on one version |
| `SemVerProofs` | theorems about `SemVer` | TLAPS |
| `MCPipeline`, `MCSessions`, `MCConfigInit`, `MCCApi`, `MCTomlFile`, `MCSemVer` | small instances for TLC | |

### Pipeline

`pc[p]` is `down` without a Config, `ready` while the program runs, and
otherwise the step `finalise` is about to take for the key `cur[p]`. Each step
is one request or file operation with the code around it, in the order of
`config.cxx:613-776`:

    hash -> find_location -+-> remove -> get_root ------+-> file_type
                           +-> rename -> post_location -+
    file_type -> find_namespace [-> post_namespace] -> find_product
    find_product -+-> get_object ------------------+-> get_component
                  +-> post_object -> post_product -+
    get_component -> the next key, or patch

`writes`, `reads`, `outputs`, `inputs` are the maps of the Config (their
entries reduced to the object whose component they hold), `hash`, `loc` and
`obj` the local variables of `finalise`. `Throw` is an exception: the Config
stays, the locals go. `LoseReply` is a request that the registry committed and
whose answer never came, `Fail` one that did nothing, `Crash` the end of the
process; all three draw on `MaxFaults`. `link_write` sends no request, and
`link_read` sends only GETs whose answers never change once they exist (rows
are never deleted), so each is one step.

A row of `storage_location` is the triple of name, hash and public flag; names
stand for namespace, name and version together. A POST of a data product
whose name is taken changes nothing, and finalise goes on with its own object:
that is what `api.cxx:298` and `config.cxx:717` come to. A finalise that has
nothing to list sends the JSON text `null`; a registry may take it (`Patch`) or
refuse it (`PatchRefused`).

### Sessions

`Pipeline` starts a Config in one step, which makes its code run and nothing
else. That is sound for what the code runs are (the ledger below), but two rows
of the constructor matter to `finalise`: the storage locations of the config
file and of the script have the root of the data store, are public and have a
hash, and those are all `finalise` asks for (`config.cxx:628-633`).
`StartSession` adds these rows, and their objects; `source[f]` is the config
file or script itself, which its user may save again (`Edit`). So an output
equal to one of them is removed as a duplicate, and its one copy is a file that
may change. The repository's row is under another root.

The path such a row gives (`PathOf`) is the file's own path, from which
`config.cxx:244-252` takes the text of `write_data_store` wherever it occurs,
and a leading slash. Where the path is `write_data_store` and the rest, what is
left names the file under the store's root: these are the files of `InStore`.
Any other path is taken to name no file there, as with the repository's own
test configs; a relative path that leads back out of the store (`../`) could by
chance, and would then be as good as one in the store. In the run the config
file is inside the store and the script outside.

### ConfigInit and ApiClient

`pc[p]` walks through `Steps`, the requests of `initialise` in their order.
`Row` is what each posts, with the ids the earlier ones returned (`refs`).
`ApiClient` answers: `Created` (201), `Conflicts` (409, the query is the next
step and other processes move in between), `Queried` (its answer, null when no
row has all the posted fields), `Refused` (a required reference is null),
`CallFails`. Which key makes a location unique is a matter of the registry:
`Keys` holds two possibilities, all the fields or the content alone, and the
safety properties hold for both. `Edit` is the user saving a config file at
any time, and `account` whether `fair init` made the user and the author. Only
the first two queries carry the token (`TokenPassed`); `open` says whether the
registry answers a GET without one. If not, a constructor fails at its third
query, before it wrote anything.

`ConfigInitLedger` maps each code run to the files it names, followed through
objects, locations and roots, and shows that constructors, however they
interleave and wherever they fail, implement a ledger that grows by one whole
run at a time (`CodeRunLedger`). It is what lets `Pipeline` and `Sessions` make
a code run in one step.

### CApi and Logging

A C++ pipeline is a number; `structs` are the allocated `FdpDataPipeline`s,
`handle` the program's variables, `shared` what C++ code took with
`from_c_struct`. `fdp_link_write` is `_fdp_link`: its checks, the call, the
length check after the call, and the copy, as arithmetic on addresses;
`LinkArgs` are the arguments programs pass, null pointers and names without an
end among them. `fdp_link_read` makes the same checks and copy, and what it
does to the pipeline is in `Pipeline`. `to_c_struct` gives a pipeline that C++
code holds a struct again; that it has one at a time is a bound of the model.

The logger has a level of its own and its sink has another; `fdp_set_log_level`
sets the first, messages are filtered by the second.

### TomlFile

`entries` are the tables of the file in their order, `exists` whether there is
a file at all: one that exists and has no tables is an error to every caller.
A write is `Check` (`component_exists`), `Open`, which makes the file, and
`AppendEntry`, the write of the stream's buffer in append mode; `open` and
`append` are values of `pc[p]` at which other processes move and the process
may die. A read without a component starts with `First`
(`get_first_component`); `Load` parses the file into `seen[p]`, from which a
distribution is taken at once; a point estimate goes on to `FindComponent`,
which parses the file again to ask for the component and then takes it from
`seen[p]` (`data_io.cxx:44-46`). `Parses` is the one rule of `toml::parse` that
matters here, that no table is defined twice. The library takes no lock, so two
processes that write the same component at once can make a file that never
parses again; `FileParses` is about programs that share a file and not a
component (`WritersApart`). `LoseEntry` is a full disk: nothing is written, and
the call returns as if it were.

### SemVer

`v` is the version a program works on and `other` one it compares it with.
Numbers are unsigned (`Limit` is 2^32 in the program, 32 in the run) and wrap;
`std::stoi` takes the lower half. A text is a record of what the parser tells
apart: the three numbers, the tag, the number after it and whether a dot stands
before that number. `to_string` writes no dot, the documented form has one,
and the constructor from a text always skips one character: `NumberRead` is the
number without its first digit when there is no dot (`AfterFirst`). `Radix` is
the base of the notation, 10 in the program and 2 in the run, so that numbers
below 32 have up to five digits.

## 3. Runs

Passing runs:

| run | instance | shows |
|---|---|---|
| `PipelineRace` | 2 processes, both public, 1 product both read and written, 2 contents, 3 Configs, 3 files, 1 fault | registry and store stay consistent under every interleaving and refine `Catalogue`; a call lists what it wrote or what is published, and calls that are repeated post no object twice without a fault |
| `PipelineLive` | 2 processes, one public and one not, that both write one of two keys, the second with the other key as name to use, and reads through the literal name, 1 fault | finalise ends, and succeeds when nothing fails and no name to use is given; one with anything to list never sends the body that may be refused |
| `Sessions` | 1 process, 2 keys, the second with the first as name to use, reads through the literal name, 2 Configs, 3 files, a config file in the store and a script outside, 1 save of one of them, 1 fault | a finalise that threw or died is repeated without losing outputs; registered files are in place until a user saves one of them, but for the script, and content is lost only to a registered config file or script |
| `ConfigInit` | 2 clients with one script at two paths, 2 possible keys, a config that does not validate, 3 states of the account, a registry that wants a token or not, 1 edit, 1 fault | code runs are whole, describe their runs and refine `CodeRunLedger`; constructors end and succeed |
| `CApi` | 2 handles, 2 pipelines, 1 key, 9 pairs of a name and a buffer: apart, touching, overlapping, null, empty, unending | ownership, the copy, what a lost path leads to |
| `TomlFile` | 2 processes with a component each, both types, 2 values, 4 calls, 1 crash or lost write | a shared file stays readable, nothing is overwritten, reads are true |
| `SemVer` | numbers below 32, base 2, 9 for the 1E9 of no tag, the versions of `SomeVersions`, 3 calls | the order is the one of the fields, what is read back from which text |

Runs that find a statement of the documentation violated (the findings of
`PROJECT.json`):

| run | statement | code |
|---|---|---|
| `DocOutputsPublished` | finalise records all data products (`fdp.h:71`) | the loser of a race lists an object no product refers to (`config.cxx:717`) |
| `DocUseName` | the name to be used (`io_object.hxx:42`) | the key is used (`config.cxx:459`) |
| `DocLinkRead` | the path of a given data product (`config.hxx:235`) | an input called `data_product` answers for all (`config.cxx:473`) |
| `DocRenamed` | pending writes are renamed to their hash (`config.hxx:245`) | one that equals a registered config file or script is removed (`config.cxx:640`) |
| `DocSetLevel` | the level set decides what is logged (`fdp.h:126`) | the sink's level does |

Six more findings need no run, since the line shows them: an existing
version's object is listed whatever was written (`config.cxx:690`), a config
file or script outside the store is registered with a path that names no file
(`config.cxx:244`), a second `fdp_init` makes another pipeline
(`fdp_c_api.cxx:147`), `to_string` does not write the form the constructor is
documented with (`semver.hxx:128`), versions that differ in metadata alone are
neither `<=` nor `>=` each other (`semver.hxx:185`), and a tag without a number
ranks above the numbered ones of its kind (`semver.hxx:83`).

**Bounds.** `MaxRuns`, `MaxWrites`, `MaxFaults`, `MaxStarts`, `MaxEdits`,
`MaxInits` and `MaxCalls` are budgets in the guards of what happens outside the
code, never in the code's own steps. Two processes are enough for every race on a row, since
each request reads or writes one row; a third Config (`MaxRuns = 3` in
`PipelineRace`) lets a new process meet what a dead one left. Both processes of
`PipelineRace` are public, so that they post and find the same rows; those of
`PipelineLive` are not alike, so that they do not. Two contents are what it takes to write the
wrong one, and one fault what it takes to stop at any point of a call. Contents
are interchangeable and so symmetric where no liveness is checked; so are the
handles of `CApi`. Names of 0 to 2 bytes and buffers of 0 to 2 give every
way a name and a buffer can touch, overlap or be apart, on either side. Four calls on a TOML
file let each process write and read while the other does. Three calls on a
version reach a second number of a tag and a text read back after it; five bits
let every field wrap and pass the half that an int takes. `ConfigInit`,
`TomlFile` and `SemVer` run without the deadlock check: once the budgets of
Configs and edits, or of calls, are used up nobody has anything left to do. In
the other passing runs some step is always possible.

**Fairness.** Weak fairness of the steps of `finalise` (`PipelineLive`) and of
the constructor (`ConfigInit`), per process: both are straight-line code that
takes no lock and waits for nothing but its own requests. That a request comes
back at all is an assumption: `curl` is used without a timeout. Nothing makes a
program call finalise, make a Config, or fail; and since no fairness is given
to faults, `FinaliseSucceeds` and `ConstructionSucceeds` only speak of
behaviours without one. `ConstructionSucceeds` also needs a registry whose
conflicts are always with the same row (`KeysAreWhole`); with the narrower key
the run shows constructors that end with an exception.

## 4. Proofs

`PipelineProofs` proves, for every set of processes, keys, names and contents,
every assignment of keys to configs and every bound:

* `TypeCorrect`: `TypeOK`;
* `RegisteredFilesAreStored`: a registered location's file is in the store and
  has its hash;
* `StoreWrittenOnce`: no step changes or removes a file of the store;
* `ContentIsKept`: finalise takes a temporary file away only when its content
  is in the store.

The assumptions are those the modules name: `StoreConstants` (no file is not a
content), `RegistryConstants`, `PipelineConstants` (the constants have their
types, keys are numbers and can be names) and `KeysOrdered` (a non-empty set of
keys has a least one, which `std::map` gives).

`RegisteredFilesStored` is not inductive: that the POST of a location is
preceded by the rename is only visible in the process's own state. `IInv` adds
`ContentAddressed` (what is under a hash has that hash) and, per process,
`LocalOK`: in the loop `cur` is a linked key; after the hash step the hash is
that of the temporary file until the file is moved or removed; before
`post_location` the file is in place; and once a location is known it is
registered and has the hash. The proof goes by frame lemmas (`StoreFrame`,
`LocationsFrame`, `RegistryFrame`, `OthersFrame`: which one step changes what),
types (`StepTypeOK`), what a step does to the store and to the table
(`StoreStep`, `RegisteredStep`), and `LocalOK` of the process that moves
(`OwnLocalOK`) and of the others (`OthersLocalOK`: a step of one process only
adds rows and files). `StoreIsWriteOnce` then holds because a rename puts under
a hash a content with that hash, and `NoContentLost` because `remove` is
reached only with a registered location of the right hash.

`PipelineRecordProofs` proves the same of the rows: `NoRowDangles`,
`SuccessRecordsAll`, `PublishedAsHashed` and `LinkedReadsAreGood`. `RecordsOK`
adds to `IInv` that every object a process holds exists and that the one it is
about to publish has the hash of its key's file (`RefersOK`); how far the loop
is, so that before the PATCH every key is done and `inputs_` holds what `reads_`
does (`ProgressOK`); and that no two Configs share a code run (`OwnRuns`), for
otherwise the PATCH of one would undo what the other's return promised. It is
kept because rows are only added (`RowsAreKept`). `RecordsStep` proves that a
step keeps it without a word on where the files are, so that it can be used
again for `Sessions`.

The next section of the module is about inputs. `ReadsAreAsAsked` holds without
a condition: what a Config records as read is the object of the name its config
gives. The path `link_read` gives is another matter, since one of its lookups
uses the literal name `data_product` (run `DocLinkRead`). `LinkReadGivesIt` and
`LinkedReadsAreGood` assume `LiteralIsHarmless`, that this key is in no read
section, or that all keys stand for the name it stands for, and so say that
this literal is all that can go wrong.

Two more theorems say in the same way when the documented promises do hold
that runs refute. With `WritesUseOwnName` (no other name to use is given for an
output) `OwnNamesArePublished` proves `PublishedUnderUseName`, which
`DocUseName` refutes without it. With `WritersDisjoint` (no two processes write
one key) `DisjointOutputsArePublished` proves `OutputsArePublished`, which
`DocOutputsPublished` refutes without it. The first rests on `NamedOK` (a key
`finalise` is through with has a row), the second on `OwnNamesOK` (the object
of a key is the one its row has, and between the lookup and the POST nobody
else makes the row). No condition excludes crashes, lost requests or repeated
calls.

Two more sections are about single calls. `ListedAsWritten` proves
`ListsWhatWasWritten`: `ListingOK` says that what the loop has listed, and the
object it holds, fits the key (`Fits`), and `FitsStays` that what fits goes on
fitting, since rows of names do not change and objects neither. `RetriesAreCheap`
proves `RetriesCostOneObject` for finite sets of processes and names. It counts:
`Spent` are the pairs of a process and a name of which the process is about to
publish an object, or will find one published. The POST of an object adds a
pair (`PaidForStep`), and only a fault takes one out (`SpentStays`), because
`FindProduct` sends nobody to a second POST for a name that is there.

The last section proves `ImplementsCatalogue`, step by step: the rename of
finalise is `Keep` (`RenameKeeps`), the POST of a new name is `Publish` of a
content that is kept (`PostPublishes`: its object's location is registered, so
the file is in place), and every other step is a stutter
(`NamesKeepTheirMeaning`).

`SessionsProofs` proves what is checked of `Sessions`, from the assumptions of
`Pipeline` and `SessionConstants` (config files and scripts have paths that no
data product has, and two of them have one path only if neither is in the
store). The invariant of `Pipeline` does not hold here: the location of a
config file has no file among those that `finalise` moved. `SessionInv` puts
`PlaceOK` in the place of `RegisteredFilesStored`: a location is of a file that
`finalise` moved, or of a config file or script, and then it is public, and in
place until someone saves one if that file lies in the store. Steps of a call
are those of `Pipeline`, so the lemmas about them (`LocationsStep`,
`TakenAway`, `OwnLocalOK`, `RecordsStep`), which assume nothing about where
files are, do most of it; what is new is the rows of a constructor and the
save. `InPlaceThroughout`, `SessionsRecordAll` and `SessionRowsResolve` are
parts of the invariant. `OnlySourcesTakeContent` (`LostOnlyToSources`) needs
that `PlaceOK` makes config files and scripts public and that `finalise` looks
for locations with its own run's public flag. For the same reason
`PrivateWritesAreRenamed` proves the promise that `DocRenamed` refutes for
programs none of whose runs is public (`AllPrivate`).

`ConfigInitProofs` proves `TypeCorrect`, `RunsAreWhole` and `WritesAuthorised`
for every set of processes, every assignment of config files, commits and
scripts, and every choice of unique keys, from `InitConstants` and
`ClientConstants`. The invariant says what a constructor knows: every id it
holds is null or leads to the row its step wanted, object by object, location
by location, root by root (`RefsOK`, `Holds`); a row in conflict is the one it
was to post (`ConflictOK`, which is why the row found by the query will do,
whoever posted it); it is past the account's queries only with an author
(`PermittedOK`); and every code run was made so by one process with a valid
config (`WholeRun`). A file that is saved again does not matter, since `Fits`
asks for some content of the right path.

`CodeRunProofs` proves `LedgerIsImplemented`, the refinement of
`CodeRunLedger`: a code run stands for the same files ever after (`EntryStays`)
and the POST of one adds its entry (`EntryAdded`). For registries that ask no
object or code run to be unlike others (`Unkeyed`, as in the runs) it proves
`RunsShareNothing` and `RunsDescribe`: an object a constructor posted is held by
no other and named by no code run before its own (`RunsOwn`), and what it
registered of its config file is what it parsed, until the file is saved
(`AsParsed`).

`TomlFileProofs` proves all the properties of `TomlFile`, for every set of
processes, components and values and every bound: `TypeCorrect`,
`FileStaysReadable`, `ReadsGiveWhatIsThere`, `NoEmptyFileLeft`, `OnlyRacesMiss`
and `TablesAreKept`, from the one assumption `TomlConstants`. The invariant adds
to the properties what a writer knows between its check and its append
(`WriterKnows`: it writes a component of its own, which the file still lacks
when no other process writes it), that what a reader parsed is still there
(`SeenIsThere`), and that a call that has not ended has no result
(`NoResultYet`). `EntriesGrow`, that a step at most appends one table, is the
lemma behind most of it.

`SemVerProofs` proves, for every width of numbers and every base, from the one
assumption `SemVerConstants`, all the properties of `SemVer`. Each is a
consequence of `TypeOK`, which is inductive since numbers wrap. `OrderedByRank`
is the one that takes work: `DigitsInOrder` says that of two numbers written
with a leading and a trailing digit the greater has the greater leading digit
or, on a tie, the greater trailing one, and `LessIsRank` applies it field by
field; `<=` and `>=` follow for versions of the same metadata. `TagsRise` rests on `RetagNewer`, what a new tag or number does to the
order. `ReadBackIsOlder` needs that a number is not less than what is left of it
without its first digit (`AfterFirstIsLess`), for which the recursive function
`AfterFirst` has to be shown to exist: functions that fulfil its definition up
to a bound are extended by one number at a time (`AfterFirstExists`). The
induction is over a set of numbers (`NumbersFrom`), since an induction theorem
with an operator for parameter cannot be used.

`CApiProofs` proves all the properties of `CApi`, for every set of variables and
keys, every set of pairs of a name and a buffer (any length, any address) and
every number of calls: `TypeCorrect`, `CopiesAreSafe`,
`LostPathsBlock` and `OnlyInitLoses`, from `CApiConstants` and
`LevelsAssumption`. `TypeOK` alone is not inductive: a free through one
variable would leave another dangling. The invariant adds that no two variables
point to one struct (`StructsOwned`), that a file is only at a path the program
was given (`FilesAreGiven`, which is what makes a lost path block finalise),
and that a finalised pipeline has no struct (`FinalisedIsGone`).

Model-checked only: liveness (`FinaliseEnds`, `FinaliseSucceeds`,
`ConstructionEnds`, `ConstructionSucceeds`), which rests on fairness and is out
of the prover's reach. All safety properties of the passing runs are theorems.
Of the statements that runs refute, `LevelIsObeyed` is the only one with no
theorem that says when it does hold.

## 5. Assumptions and omissions

* The registry never deletes rows; namespaces are unique on their name, data
  products on name, namespace and version, locations in `Registry` on all their
  fields. In `Pipeline` it answers GETs without a token; `ConfigInit` shows that
  against one that does not, no Config is ever made.
* The registry refuses a row whose required reference is null. That code runs
  are whole, and the ledger, rest on it: the code posts what it got from a
  conflict without looking.
* SHA-1 is injective, temporary names are never drawn twice.
* A request is atomic at the registry. One `Config` is used by one thread: the
  library takes no locks and promises nothing else.
* One storage root, one extension per name, components and objects one to one
  (an object's first component is all the code uses).
* The id taken from an empty URL (`api_object.cxx:70`) is undefined behaviour
  whose outcomes all end in the exception of `std::stoi`.
* TOML files are written by this library only: every table has its keys, and
  numbers are floating (an integer `mu` written by hand is rejected,
  `distribution.cxx:44`). The write of an open file is whole or lost; one that
  is torn, which a disk can fill up to make, would only be a file that does not
  parse.
* `fdp_init` is given the path of a config file: it makes a string of it outside
  the part that turns exceptions into error codes (`fdp_c_api.cxx:141`), so with
  a null pointer the exception of `std::string` leaves the C interface.
* Versions are made from numbers and from texts of the two forms; a text that
  is no version makes the constructor throw and is left out.
* Not modelled: `download_file` and `setup_download_session_`, which nothing in
  `src/` calls; `CompositeSink`, which the library never makes (its `log` hands
  a message to its sinks past their own levels); `error_name`, which nothing
  calls; message formatting; the URL of a remote registry.

## 6. Plan

1. Model the sinks of the logging classes, for programs that make their own,
   and a torn write of a TOML file.
2. `ConfigInit` against registries that make objects unique, where `Unkeyed`
   fails: which code runs may share an object then.
3. The C functions: when the level that is set does decide what is logged.
