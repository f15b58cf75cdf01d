# TLA+ models of the datadog-iac-scanner metadata tooling

These modules model the Python tools that keep the rule records under
`assets/queries/**/metadata.json` in step with the rule documentation and with
the canonical documentation URL. The Go scanner is not part of this model.

## The system

| Part | Source | What it does |
|---|---|---|
| doc → record sync | `.github/scripts/sync-copywriter-changes/sync_md_to_metadata.py` | For every `documentation/rules/**.md`: extract title, description, severity and category (FieldExtractor). Map the doc to `metadata.json` and `positive_expected_result.json` (PathMapper, `find_json_paths`). Rewrite the fields that differ (RecordStore). Count processed, updated and errors; the exit status depends on those counts and `--ci`. |
| URL validator | `.github/scripts/metadata-validation/validate_metadata.py` | Derives a record's identity from its location (`extract_rule_path_from_file`). If the record has a `providerUrl`, its `descriptionUrl` must be the canonical prefix plus that identity. Reports every record and exits 1 if any is invalid. |
| URL migration | `documentation/change_metadata.py` | Rewrites `descriptionUrl` (and `providerUrl`) of every rule below one platform directory. Whether a provider layer exists is sniffed from the first subdirectory. |
| upstream reconciler | `sync_tools/sync_metadata_from_upstream.py` | Fills one empty field (`--field`) of every record from the record at the same path in the upstream repository, over HTTP. Supports `--platform`/`--provider` filters, `--limit` and `--dry-run`, and prints a summary of the `stats` counters. |
| rules generator | `rules_generator/classes/RulesGenerator.py` | Calls an external text-generation API. It holds no state, so it is not modelled. |

The parts interact only through the files. The migration writes URLs that the
validator must accept, and the sync rewrites records that the validator and
the reconciler read. `ChangeMetadata` models that composition: it uses the
validator's own rules (`UrlRules`) as the judge of what it writes.

## Modules

* **MdSync** (`MC_MdSync`) models `sync_md_to_metadata` and `main`.
  * The state is the two files of each document (`meta`, `pos`), the loop
    position (`pc`, `queue`, `cur`), the counters, and `exitCode`.
  * A file is a record, `Corrupt` (does not parse) or `Unreadable`.
  * One action per step of the code, split where the code writes:
    * `StartRun`: `main`, with `--dry-run` on or off and any rglob order.
    * `TakeDoc`: read the doc and find its paths. An unreadable doc or an unmappable path raises into the loop's `except`.
    * `UpdateMetadata` / `FinishMetaWrite`.
    * `UpdatePositive` / `FinishPosWrite`.
    * `FinishRun`: the counters and the exit status.
  * `Crash` kills the process at any point, including between `open('w')` and the end of `json.dump`; the file being written becomes `Corrupt`.
  * `WriteFails` is either write raising (permission, disk full). The document counts an error in the loop's `except`. A failed metadata write skips the expected-result update, and either failed write skips `updated += 1`. If `open` raised, the file is unchanged; if `json.dump` raised, it is left torn (`Corrupt`).
  * The documents are abstracted to what the extractor returns: a value or `None` per field.
  * Each document's path is chosen in `Init`. `find_json_paths` (from `PathMapper`) turns it into the document's outcome: `ok`, `unmappable`, `nometa` or `nopos` (`Outcome`, the caller's checks).
  * History variables record each run's starting files and the last finished run (its files, changes, `updated` and `errors`). They are used by the idempotence and dry-run properties.
* **PathMapper** is a set of pure operators translating `find_json_paths`.
  * A path is `Path.parts`, a sequence of segments. A segment is a sequence of symbols, where `Md` stands for `.md`.
  * `RulesIdx` is `parts.index("rules")`, and `RuleName` is `replace(".md", "")`, which removes every `.md`, not only the extension.
  * `FindJsonPaths` returns the bare `None` of the two early returns, or the pair of paths, each `None` when its file does not exist.
* **UrlRules** is a set of pure operators. It translates the validator's string operations at symbol level:
  * a path is a sequence of characters and of the atomic symbols `Prefix`, `"assets/queries/"` and `"/metadata.json"`;
  * `split`, `replace` (every occurrence), `in` and `lower()` behave as in Python on these sequences.
* **UrlValidator** (`MC_UrlValidator`) models `main` of the validator.
  * `Init` builds the file list: the files given on the command line, or else `find_metadata_files` (`FindMetadataFiles`) over a base path. That helper takes any glob order and drops every path with a `test` or `fixtures` component (`InPath`) unless `--include-tests` is set. The filter looks at the whole glob path, base path included (`GlobPath`).
  * `NothingFound` is the early `return 0` for an empty list. `CheckFile` is one loop iteration. `Report` is the summary and the return value.
  * The model enumerates every URL of up to three symbols.
* **ChangeMetadata** (`MC_ChangeMetadata`) models `main` and `process_rule_directory` of the migration:
  * `Sniff`: the layout decision, and the early return when there are no subdirectories;
  * `ProcessRuleDirectory`: one call of `process_rule_directory`;
  * `Finish`.
  * It runs over layouts that have a provider layer, lack one, or mix the two, and over names in either case.
* **UpstreamSync** (`MC_UpstreamSync`) models `sync_metadata_from_upstream.py`.
  * A JSON value is one of the classes the code's checks tell apart: key absent, `""`, whitespace, a non-empty string, or `0`/`false`/`null` (falsy, but `str()` of it is not blank). `IsPresent` is line 78's `v and str(v).strip()`.
  * A local record is `[field, other]`; `other` stands for the Datadog-specific keys. An upstream record has only `field`. `upstream[f]` is what the server holds; each call of `fetch_upstream_metadata` (`FetchUpstreamMetadata`) returns it or, when it fails, `None`, independently of every other call.
  * Actions:
    * `StartRun`: `main`, with any rglob order, filters (`Selected`), `--limit` (`PyHead`, Python slicing under `if args.limit:`) and dry-run flag;
    * `UpdateFieldFromUpstream`: one call, with all its outcomes. The write may raise in `open()`.
    * `FinishRun`.
  * The history variables `startRec`, `batch` and `fetched` hold the files as the run found them, the files it selected, and what each fetch of the run returned.
* **GapFill** is the abstract contract of the reconciler (spec 4.5 and 8). A record's field may change only from a value that is not a non-empty string, only to a non-empty upstream value, and no other key changes. `UpstreamSync` instantiates it with `INSTANCE GapFill WITH ...`, mapping the value classes to the contract's `Protected` and `Blanks`. `GapFillSpec` is checked as a temporal property, so every step of the code is a `Fill` or a stutter of the contract.
* **FieldExtractor** (`MC_FieldExtractor`) models `extract_informations_from_md` on token sequences. `Extract` is one call: four independent searches of the whole document. The tokens are newline, space, other character, `##`, the literal `### Description`, a double quote, and the literals `title:`, `severity:` and `category:`.
  * `ScalarMatches` is where `<key>:\s*"([^"]+)"` matches. `Scalar` takes the leftmost match and strips its group.
  * `DescMatches` is the set of ways the description regex can match.
  * `Pick` is the match Python's backtracking returns: leftmost start, longest first `\s*`, longest second `\s*`, shortest lazy group.
  * `Strip` and `CollapseNl` (recursive) are `strip()` and `re.sub(r"\n{3,}", "\n\n")`.

## Runs

| Run | Checks | Result |
|---|---|---|
| `mdsync` | `TypeOK`, `Idempotence`, `DryRunFidelity`, `SyncPostcondition` | pass (about 5.3M states, 75 s) |
| `mdsync_exit_zero` | `ExitZeroMeansSynced` | violation: a record that does not parse is skipped silently, and the exit status is 0 |
| `mdsync_unmappable` | `ErrorsAreFaults` | violation: an unmappable doc path is counted as an error (the bare `return None` is then unpacked) |
| `mdsync_torn` | `NoTornRecord` | violation: a crash during a write leaves a truncated record |
| `urlvalidator` | `TypeOK` | pass (about 1.6M states): the loop, discovery and report over every URL of the bounds |
| `url_canonical` | `CanonicalForm` | violation: `prefix+prefix+identity` is accepted because `replace` removes every copy |
| `changemeta` | `TypeOK`, `RewrittenRecordsValidate` | pass: every record the migration writes validates |
| `changemeta_mixed` | `AllRulesValidAfterRun` | violation: with a mixed layout, rules are skipped because of first-subdirectory sniffing |
| `upstream` | `TypeOK`, `SummaryIsTruthful`, `GapFillSpec` | pass (50k states) |
| `upstream_zero` | `PresentNeverOverwritten` | violation: a local `0`/`false` is overwritten from upstream, although spec 4.5 says a non-empty field never is |
| `extractor` | `ReadsBackTemplate` | pass (351k states) |
| `extractor_leak` | `DescriptionStaysInSection` | violation: `"### Description\n\n## x\n## "` gives the description `"## x"`, the next section |

What the passing properties say:
* `Idempotence`: after a real run that reports no errors, a run that starts from the files it left changes nothing and counts nothing updated, whatever order either run used and whatever corrupt records were skipped.
* `DryRunFidelity`: a dry run changes no file. A real run from the same files prints a subset of the dry run's changes and at most its update count, and exactly those when it has no more errors than the dry run. Only a write that raises makes the difference: a failed metadata write skips the expected-result update, and any failed write skips `updated += 1`.
* `SyncPostcondition`: after an error-free real run, every record that parses carries the extracted values. In the expected-result file this holds for every entry, not only the first.
* `SummaryIsTruthful`: when a run ends, each counter of the printed summary is the number of selected files with that outcome, judged from the files as the run found them and from what each of its fetches returned. A failed fetch counts as "not found upstream", not as an error. After a real run, `updated` is the number of files that changed, and only fillable files change. A write that raised is counted as an error. A dry run changes nothing, and it counts as updated every file a real run would fill.
* `GapFillSpec`: the refinement described above.
* `ReadsBackTemplate`: any description the extractor returns reads back unchanged from the spec's template (`### Description`, blank line, text, blank line, `## `). Extraction is a fixed point of rendering in the template, for prose with several lines, newline runs to collapse, surrounding whitespace and a `## ` inside.

Each property of a passing run is broken by a mutant that models a plausible
bug in the operator it depends on (see `mutants` in `PROJECT.json`).

## Bounds

* **MdSync** uses:
  * 2 documents, under a symmetry, each at one of six paths:
    * `a/x.md` and `b/x.md`, which have both files;
    * `a/y.md`, which has no expected-result file;
    * `a/z.md`, which has no record;
    * `x.md` and `y.md` directly under `rules/`, which are unmappable.

    The two documents have distinct rule directories, because the model keeps records per document;
  * 2 fields, `queryName`, which also appears in the expected-result file, and `category`, which does not;
  * 2 values;
  * 2 runs, so that a second run can observe the first;
  * 1 crash;
  * 1 write that raises, so that a real run can follow a dry run with one more error than it.

  The files start as matching, differing, `Corrupt` or `Unreadable`, and the expected-result file has one or two entries. With these bounds, every path through the handlers is reached: skip, error, write, a write that raises, and a crash before or after a write. The violation runs allow no raising write: what they show does not depend on one.
* **UrlValidator** uses:
  * 2 files, one of them under a `test` directory;
  * the characters `a`, `A`, `/` and the name `test`;
  * every URL of up to 3 symbols over the prefix, `a` and `A`;
  * two base paths, `a` and `a/test`;
  * a file list that is empty (discovery, with or without `--include-tests`) or names one file.

  That is enough to build a repeated prefix, a case mismatch, a prefix missing from the front, a filtered test record, and a base path under which discovery finds nothing. The run has about 1.6M states.
* **ChangeMetadata** uses layouts of up to three entries, with rule, provider and plain-file entries in every order, and two platform names (`a`, `A`).
* **UpstreamSync** uses:
  * 2 files, of which the filter name occurs in one path;
  * every local value class plus an unreadable file;
  * upstream values of none (404), `""`, a string and `0`, each fetch of which may also fail;
  * `--limit` of none, `0`, `1` and `-1`;
  * 2 runs, so that a run can start from what a dry or real run left.

  There is no symmetry: `MCMentions` tells the two files apart.
* **FieldExtractor**:
  * The pass run takes every document of the Description heading followed by up to 7 tokens of any kind, a second heading included: 97,656 documents. Six tokens in all would only ever extract `""`. With eight, the bounds include descriptions with text, with trailing whitespace, with newline runs that collapse, and a second Description heading.
  * The pass run also takes every document that renders prose of up to 7 tokens over newline, space, text and `##` in the template: 21,845 documents, among them prose over several lines, with a run of three newlines to collapse, with leading or trailing whitespace, and with `\n## ` inside, which cuts the description short.
  * The pass run also takes every front matter of up to six tokens over the three keys, a quote, a space and another character. There a newline behaves as a space does. With six tokens there are quoted values with inner and outer spaces, empty values, repeated keys, and one key inside another's value.
  * The violation run takes the heading followed by up to 8 tokens without a second `D`.

## Fairness

Weak fairness holds only on the tool's own steps. Once a run is started, the
code's loop always proceeds: it is one single-threaded process, and no call
blocks forever, because the upstream fetch has a 10-second timeout. Starting a
run, crashing, and a write or fetch failing are environment choices, so they
carry no fairness. The specifications of `MdSync`, `UrlValidator`,
`ChangeMetadata` and `FieldExtractor` state
this fairness, but no run checks a liveness property: every property is a
state or action property. The upstream reconciler's promise to fill gaps is
not a liveness property of the code, because a fetch may fail on every call
and the code does not retry.

## Not modelled

* A kill, or a `json.dump` failure, during the upstream reconciler's write. The same write pattern is modelled, and found to tear records, in `MdSync`.
* No run states spec 4.2's rule that a scalar comes from its own front-matter key. The scalar searches are modelled, and they are not anchored to the front matter. A `title:` value containing `severity: "` sets the severity, and `title: ""` falls through to a later `title:`. This is listed as a hazard.
* Two documents mapped to the same record. `PathMapper` translates the mapping, including the first `rules` segment and `replace(".md", "")` removing every `.md`. But the `mdsync` bounds give each document its own rule directory, because records are kept per document. A collision would break `Idempotence`, so no passing run can contain one, and no run shows it.
* The `-f` file list of the sync (lines 288-289). Runs over any subset of the documents need the run's batch in the history. That multiplies the `mdsync` states by about five, to 19M and nearly five minutes. The model always processes every document in some rglob order.
* A liveness property for the sync loop: a readable document is synced whatever other documents fail. It holds, but without symmetry (which liveness checking needs) the `mdsync` run takes about 9.5 minutes, more than a run may take.
* No property for a validator base path under a `test` directory. That run finds no file and exits 0. It is modelled and reached, but the spec does not say what should happen.
* Path resolution of the upstream sync (`relative_to`), and non-object JSON values. Both make the batch abort on an uncaught exception.
* `RulesGenerator`: it is only I/O to an external text-generation API.
* Command-line parsing (`argparse`) of the four scripts. Its outcomes are inputs of the models: `--dry-run`, `--ci`, the filters, `--limit`, the validator's base path, `--include-tests` and file list. The checks that exit 1 when a root directory is missing happen before any per-file work, so they are not modelled.
* `read_file_contents` and `load_list` in `change_metadata.py`: nothing calls them.
