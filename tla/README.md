# A TLA+ model of Onyx-VJ

Onyx-VJ is a video mixer for live performance, written in ActionScript 3 for
Adobe AIR. The repository keeps one directory per release, and with release
4.3.0 the sources of a module that records frames as JPEG files, a C library
compiled for the Flash player. The project models two programs:

* **the mixer**, in its last release,
  `src/Onyx-VJ 4.6.010/Onyx-VJ-Desktop/src`: what it does between the user, the
  disk and the frames, not the pixels;
* **the JPEG codec** the recorder is built on, the Independent JPEG Group's
  libjpeg 6b, in
  `src/Onyx-VJ 4.3.0/JpgRecorderModule/src/com/segfaultlabs/jpeg-6b`: all of it
  but the cosine transforms and the command-line programs. It is most of the C
  code of the repository, and all of its buffering, suspension and error
  recovery. The recorder itself makes one straight call of it per frame.

Paths below are relative to these two directories.

Flash runs one event handler at a time, to its end. What makes the mixer hard
is that its handlers come in any order (answers of the disk and the network,
timers, frames, the user), that nothing is ever cancelled, and that dispatching
an event runs its listeners at once, in the middle of the method that sends it.
An action of the mixer's modules is therefore a whole handler with everything it
dispatches, and the only place where a handler is cut into steps is the
rendering loop of the display, because its own listeners change the list it
walks.

The codec is called, and returns. What makes it hard is that any call may have
to stop in the middle, because the source has no more bytes yet or the
destination has no more room, and must leave the object so that the same call,
made again, goes on as if nothing had happened; that input, output and several
passes share buffers smaller than the image; and that one object is used for
many files, with tables and memory that outlive them. An action of the codec's
modules is one call of the library by its application, with everything it calls.

## Inventory

| part | state | operations | talks to |
|---|---|---|---|
| **Layer** `onyx/display/LayerImplementor.as`, `ContentTransition.as`, `ContentBase.as`, `LayerSettings.as` | its content (nothing, a content, a transition of two contents), the target of its parameters | load, the answer of a load, an error, end of a transition, delete, set a parameter, render | asset queries call it back; it sends LAYER_LOADED, LAYER_UNLOADED and filter events |
| **Asset queries** `onyx/asset/` | the load under way | read through the adapter and call back; answer at once (camera, line-in); both (vdpong) | call `LayerImplementor.loadStatus` |
| **Filters and filter pane** `onyx/core/FilterArray.as`, `onyx/plugin/Filter.as`, `ui/layer/UIFilterControl.as`, `ui/controls/filter/` | each content's filters, each filter's content and muting; the controls of the pane | add, remove, mute, move, clear | events go content, transition, layer, pane |
| **Output display** `onyx/display/OutputDisplay.as` | layers by index, the list of layers to render and its length | layer loaded, layer unloaded, move, render a frame | listens to the layers, renders them, and is changed by them while it does |
| **Mix loading** `onyx/jobs/` | one registered job per display, the layers a job waits for, the layers a staggered job has yet to load | load a mix, read it, load its layers at once or one per tick, complete, be replaced | loads layers, hears their LAYER_LOADED, makes the display send MIX_LOADED |
| **Thumbnails and application states** `ui/file/AIRThumbnailState.as`, `onyx/core/StateManager.as` | the queue of files, the listeners left on a private display, a timer; the list of states | take the next file, hear it, draw it, give it up, leave | a display of its own, the thumbnail database, StateManager |
| **JPEG memory** `jmemmgr.c`, `jmemansi.c` | two pools of objects, virtual arrays and the temporary files behind them, the count of bytes in use | allocate, request, realize and access arrays, free a pool, abort | every part of the codec keeps its state in its pools |
| **JPEG entropy coding** `jchuff.c`, `jdhuff.c`, `jcphuff.c`, `jdphuff.c` | tables, predictions, bits not yet put or used, end-of-band runs, restart counters | count symbols, make tables, code and decode an MCU, resynchronize | the coefficient controllers call it MCU by MCU; source and destination |
| **JPEG markers** `jcmarker.c`, `jdmarker.c` | the tables and the frame of an object, a marker half saved, bytes to skip | write and read headers, save and skip markers | the controllers |
| **JPEG compressor** `jcapimin.c` to `jctrans.c` | the state of the object, pass and scan, row buffers, coefficients, tables already sent | start, write lines or raw data or coefficients, markers, finish, abort | the application, the destination, markers, entropy coder |
| **JPEG decompressor** `jdapimin.c` to `jdtrans.c` | the state of the object, input scan and row, output pass and row, row buffers, coefficients, multipliers | read a header, start, read lines or raw data or coefficients, start and finish an output pass, finish, abort | the application, the source, markers, entropy decoder |
| **JPEG samples** `jccolor.c`, `jdcolor.c`, `jcsample.c`, `jdsample.c`, `jdmerge.c`, `jquant1.c`, `jquant2.c`, `transupp.c` | color tables, colormap, histogram and its use as a cache, errors carried from pixel to pixel | convert, sub- and upsample, choose colors, map rows, transform | called on buffers of rows or of coefficients |
| SWF registry, contents by type | reference counts of loaders shared by path | register, unregister | contents |
| Tempo and tempo filters | clock, handlers per filter | start, mute, retime | filters |
| Tweens | running tweens per target | start, stop, frame | parameters |
| Parameters, plugins, preview display and windows, MIDI / keyboard / DMX / remote control, VideoPong and HTTP services, settings and start-up states | | | |

The parts in bold are modelled, all or in part, as `PROJECT.json` says; the
others are not (see the end).

What must hold, per part:

* layer: it renders and drives only live contents; its two events alternate;
  what it lets go it releases; a transition ends; the newest content wins;
* filters: the pane shows the filters there are, its controls work, nobody
  applies a disposed filter;
* display: its list is the layers that hold something, in order; a frame draws
  each once, though the list changes in mid-frame;
* mixes: MIX_LOADED is sent, and when it is, the mix is there; a replaced mix
  leaves the stage;
* thumbnails: a file's thumbnail is its own; the queue ends; leaving harms
  nobody else;
* JPEG memory: what is written to an array is read from it, wherever it is kept;
  no byte and no file is lost, when allocation fails in the middle too;
* JPEG entropy coding and markers: what is coded is decoded, wherever coder and
  decoder had to stop, and after lost segments; decoder never waits for nothing;
* JPEG compressor: a file is the image, each scan once, each table before its use;
* JPEG decompressor: each line is the right one, complete, and no call hangs;
* JPEG samples: colors and planes come back as near as their rounding allows;
  turned coefficients are the turned picture; a pass with few colors does not
  depend on those before it.

## Modules

| module | models | notes |
|---|---|---|
| `LayerFade` | what a layer promises | abstract: shows one content, fades in a second, keeps nothing else alive |
| `Layer` | one layer and its queries | implements `LayerFade` for a user who waits |
| `LayerFilters` | filters and pane of one layer | EXTENDS `Layer`; every action of it is one of `Layer` with what it does to the filters, or a filter action |
| `OutputDisplay` | the display | takes from `Layer` the events a layer sends: one LAYER_LOADED over nothing, both over a content or at a transition's end, none at its start |
| `MixLoad` | jobs and mixes | layers answer in any order |
| `Thumbnails` | the thumbnail maker | a display with one layer that counts |
| `LayerProofs`, `OutputDisplayProofs`, `MixLoadProofs`, `ThumbnailsProofs` | | theorems about the modules they are named after; `LayerProofs` also has those about `LayerFilters` |
| `JpegMemory` | the memory manager | malloc and the disk may fail at any call |
| `JpegHuffTables` | the tables of a scan, from the counts of its symbols to a decoder's lookup | used by both entropy coders |
| `JpegHuffman` | a sequential scan, from coefficients to bytes and back | EXTENDS `JpegHuffTables` and `JpegMarkerCodes`; two processes and the file between them |
| `JpegProgressive` | the four kinds of progressive scan | EXTENDS `JpegHuffTables`; pure, one operator per kind and side |
| `JpegFrame` | geometry of images and scans, scripts of scans | used by the next five |
| `Loops` | a loop: a step taken n times | used by `JpegCompress` |
| `JpegCompress` | the compressor, call by call | its loops end by steps that change nothing |
| `JpegDecompress` | the decompressor, call by call | |
| `JpegMarkers` | headers, byte by byte | EXTENDS `JpegFrame` and `JpegMarkerCodes`, the codes of the markers |
| `JpegTransform` | lossless transformations | |
| `JpegColor`, `JpegSampling` | color conversion, sub- and upsampling | `JpegSampling` EXTENDS `JpegColor` for merged upsampling |
| `JpegQuantize1`, `JpegQuantize2`, `JpegQuantize` | one-pass and two-pass color quantization, and the passes that choose between them | each EXTENDS the one before |
| `JpegMemoryProofs`, `JpegCompressProofs`, `JpegImageProofs` | | theorems about `JpegMemory`, about `JpegCompress`, and about `JpegTransform`, `JpegColor` and `JpegSampling` |
| `LoopProofs` | | the rule for loops, instantiated with a loop and its invariant |
| `MC*` | | small instances for TLC; `MCJpegNumbers` has one case of a pure computation per state, and `MCJpegParts` puts four parts of the codec that do not meet into one run |

Definitions before an operator and introduced by "Mutant" are wrong variants of
it, at least one per property: each makes its property fail, so the property
depends on the code and not on the shape of the model. They, the properties, the
references they compare with (`Ref*`) and the history variables
(`Layer.wanted`; `LayerFilters.reused`, `thrown`, `mutedInFade` and `lost`;
`OutputDisplay.drawn` and `mixed`; `MixLoad.named`, `failed` and `alone`;
`Thumbnails.last` and `late`; `JpegMemory.wanted`; `JpegCompress.known` and
`calls`) have no line of the source.

The mixer's modules and `JpegMemory` state a type invariant; `filters_overlap`
checks `Layer`'s, where contents come and go in the most ways, and of the others the
theorems prove what they need. The codec's other modules state none: their
properties are about the results they compute.

### Layer

`chain` is the pile of contents reachable from `LayerImplementor.content`. A
transition is itself a content whose `oldContent` may again be a transition
(`loadStatus` tests the wrong variable before it wraps), and whose `newContent`
never is; so the whole structure is a sequence, its bottom the one plain
content that `dispose()` reaches, its top the newest. `Accept` is
`loadStatus` on a complete event: the branch with a transition pushes the
content (`CreateTransition`), the other replaces the pile (`CreateContent`:
`_destroyContent`, storing, settings, LAYER_LOADED). `target` is the target of
the layer's parameters; a content takes it in its constructor, the layer gets
it back in `dispose()`. `announced` counts LAYER_LOADED minus LAYER_UNLOADED.
`visible` stands for the parameters a transition does not delegate;
`shellVisible` is the transition's own value of it.

`EndTransition(k)` is a frame in which the transition that brought `chain[k]`
in has elapsed and none above has: whatever `k` is, the layer becomes
`<<chain[k]>>`. An inner transition that ends while the outer one renders it
disposes the outer one, whose `render` then fails on its cleared field. The
change of state is here, the frame it aborts in `OutputDisplay.RenderAborts`.

A kind of asset is the way it answers: files and sounds later and once (an
error of a sound comes with a content that has already taken the parameters,
`Fail`), devices inside the call, vdpong inside the call and once more later.
`Forget` gives the name of a disposed content back, so that runs are not limited
to as many loads as there are names.

Constants that describe the user and not the code: `Kinds` (what is loaded),
`Overlap` (does the user act while something is pending), `Hides` (are contents
hidden), `MayThrow` (may a filter throw in `initialize`).

### LayerFilters

`filters` is each content's `FilterArray`, `owner` is `Filter.content`,
`carried` the filters of the settings of a load under way, `dead` the filters
disposed since they were last added, `pane` and `paneMuted` the controls.
`Exchange` is the common part: clear the bottom of the pile, add filters to a
content, with what the pane hears. `Registered` is the pane's `register` and
`unregister`, `Redrawn` its `mute`. `HeardRemoved` and `HeardMuted` say which
contents' events reach the layer: the layer listens to the contents it was
given, a transition forwards three of the four filter events.

A filter may throw in `initialize` (`MayThrow`). `addFilter` has put it on its
content by then, but does not go on to send FILTER_ADDED, and `settings.apply`
adds no filter after it: `Exchange` takes the filters added and those of them that
were `ready`, and the second disjunct of `Apply` ends with one that is not
(`thrown`). Without a transition LAYER_LOADED comes after the settings and is
not sent either; `lost` counts those. With one filter, as in `filters_overlap`,
TLC sees the filter that throws; the filters before and after it in the same
settings are covered by the theorems, for any number.

### OutputDisplay

`valid` and `validLen` are `_valid` and `_validLen`, edited by
`layerLoadHandler` (`Loaded`), `layerUnloadHandler` (`Unloaded`) and `moveLayer`;
`layers` is `_layers`. `StartFrame` and `RenderLayer` are the loop of
`renderLayers`; a turn reads the layer from the list, then renders it, and
rendering may end its transition, which unloads and loads the layer in the list.
Nothing else comes between the turns of a frame. Of a layer it is kept whether it
holds nothing, a content, a transition, or a transition of a transition
(`Contents`): of the last, the inner one may have elapsed, its end then clears the
outer one's `newContent`, and the exception leaves the loop (`RenderAborts`).

### MixLoad

`current` is JobManager's registration, `layers[j]` and `jobs[j]` the fields of
the two jobs. A job that has gone through `terminate` keeps answering the disk.
`ReadImmediate` is `onRead` and `loadImmediately` with the layers of `D` answered
inside the call: devices, and SWF files another layer has registered. If the
first layer of the mix is one of them, the job's list is empty again before the
second is pushed, and the job completes. `ReadStagger` builds a StaggerONXJob, whose constructor already
loads; `Tick` is its timer. `Arrive` is what a layer does with an answer: with a
transition over a content it sends LAYER_LOADED only at the transition's end
(`EndTransition`). `UserLayers` are the layers that the user also loads and
empties one by one.

### Thumbnails

`_nextQueue` is `NextQueue`, whose two branches are `Take` and `Leave`; it is
called from `Render`, `Timeout` and, once, when the state is loaded. `onLoaded`,
`onMix`, `armed` and `rendering` are the listeners in place. `flights` and
`unread` are loads the state may have given up and that will be answered all the
same. The timer may always win the race with a load. `Load` is the switch over
the kind of file: an mp3 is handled at once, and so is a registered SWF file (one
that some layer has loaded before), whose LAYER_LOADED is heard inside
`layer.load` (`Hear`); `Take` starts the timer after that, whatever the handler has
done to it.

### JpegMemory

`mem` is the manager with its two lists of pools, the list of virtual arrays and
their control blocks; `mem.file` are the temporary files. An operator that takes
a manager and gives one back is a method of `jmemmgr.c`, and `ERREXIT` sets
`failed`: the actions stop until the application aborts (`Abort`) or destroys the
object (`SelfDestruct`), both of which free what half a method has left.
`RealizeArrays` is `realize_virt_arrays`: from what memory is left it decides how
many rows each array keeps, opens files and takes buffers. `Access` moves the
strip (`MoveWindow`, `do_sarray_io`) and defines rows not seen before
(`DefineRows`). `granted` is what the last access returned; the application may
write to those rows only then (`FillRows`).

### JpegHuffTables, JpegHuffman, JpegProgressive

`JpegHuffman` is a coder, a buffer that is emptied at will, a file that arrives
at will and misses some segments, and a decoder. `EncodeMcuHuff` and `DecodeMcu`
are one call of `encode_mcu_huff` and `decode_mcu`, which copy their state, work
on the copy and keep it only if no byte was missing. `FillBitBuffer` is
`jpeg_fill_bit_buffer`, with the zeros it makes up once a marker stands in its
way, `ResyncToRestart` the decision of `jpeg_resync_to_restart`.

`JpegProgressive` gives, for each of the four kinds of scan, the symbols and bits
its coder puts out and the coefficients its decoder makes of them, from an input
that may end within any MCU. `Undone` is the loop that takes back the
coefficients an unfinished refinement has made nonzero.

### JpegCompress, JpegDecompress

The object is one record, `cinfo`, with the fields of the C structures under
their names; a method takes it and returns it. A sample is the set of scanlines
it is made of, a block the set of its samples, a table the moment it was made;
the file is a sequence of tokens. What is checked is therefore where everything
comes from, in a codec that does everything but arithmetic.

The compressor's actions are its calls: `WriteScanlines(n)` is
`jpeg_write_scanlines` with the main controller's row buffer (`jcmainct.c`),
preprocessing with or without context rows (`jcprepct.c`), and the coefficient
controller with or without a whole image's buffer (`jccoefct.c`), up to the line
where the destination makes it stop; `FinishCompress` goes through the passes of
`jcmaster.c` that remain. A table has `sent_table`; `SuppressTables` sets all of
them, `WriteTables` writes a file of tables only.

The decompressor's are `ReadHeader`, `StartDecompress`, `ReadScanlines(n)`,
`StartOutput`, `FinishOutput`, `ReadCoefficients`, `FinishDecompress`, and
`ConsumeAhead` (`jpeg_consume_input`) for an application that reads on, in any mode.
Where the image is not buffered it finds `dummy_consume_data`, whose answer
JPEG_SUSPENDED is written "dummy" to tell it from a source that has no more. `Supply`
brings items of the file. The two sets of row pointers of `jdmainct.c` are modelled as
pointers, and so is the row that merged upsampling keeps back.

### JpegMarkers

`file` is bytes, with the segments they were written for; `ReadOn` is
`jpeg_read_header` or the call that goes on behind a scan, `DecodeScan` an entropy
decoder that leaves bytes unread or finds the marker itself. A reading operator
that runs out of bytes returns `wait`, and what it has done up to then is what
the C function has done before it returns FALSE.

### JpegTransform, JpegColor, JpegSampling, JpegQuantize

Functions of blocks, pixels, planes and rows. `MCJpegNumbers` lists the cases and
compares with definitions that know nothing of the code: for a transformation,
the picture turned sample by sample; for two samplings, the slope or the flat
plane they must keep; for a Huffman table, that the decoder finds every code; for
colors, the nearest of the map to the histogram's cell for the second quantizer,
and for the first a value at most a level farther off than the closest (whether
it is the closest is asked by `IndexClosest`). Ordered dither asked of the second
quantizer is error diffusion, as its comment says (`Given`). An output pass with few colors (`OutputPass`)
takes what the quantizer has kept from the passes before it, and must give what
a fresh one gives.

## Runs

| run | instance | what holds |
|---|---|---|
| `filters_calm` | 3 contents, 2 filters, files and devices, a user who waits | `VisibleAsAsked`, `PaneMirrors`, `TargetShown`; implements `LayerFade` with its fairness (`FadeSpec`) |
| `filters_overlap` | 3 contents, 1 filter that may throw, every kind, a user who does not wait | `TypeOK`, `ShownAlive`, `TargetAlive`, `AnnouncedUnlessLost`, `PaneCoversNewest`, `TransitionEnds` |
| `display_frames` | 4 layers, nested transitions | `ValidIsHeld`; until a loaded layer is moved with an empty one, `EachRenderedOnce` |
| `mix_waits` | 2 layers, 2 mixes, answers inside the call, loads and deletes of the user's on one layer | `WaitsForItsLoads`, `LoadedMeansLoaded`, `MixAnnounced` |
| `thumbs_queue` | 3 files of any kind | `OwnThumbnail`, `OthersKept`, `QueueEnds` |
| `jpeg_compress` | 8 ways to write an image, one refused from scanlines (jinit_downsampler) but not from coefficients, two files with one object | `FileIsImage`, `ScansInOrder`, `TablesInForce` |
| `jpeg_decompress` | 5 files, one of them broken off, 14 ways to read them | `LinesInPlace`, `LinesComplete`, `NeverHangs` |
| `jpeg_parts`: memory | an array of two strips and more, one that fits, one object, two sizes of memory | `SpaceAccounted`, `RowsKept`, `GrantReads`, `NoFileLost` |
| `jpeg_parts`: entropy | 2 images of 4 MCUs, 3 restart intervals, up to 2 segments lost | `DecodedAsCoded`, `NeverStuck` |
| `jpeg_parts`: markers | 3 files | `MarkersSaved`, `ReadAsWritten` |
| `jpeg_parts`: numbers | lists of tables, scans, scripts, turns, pixels, planes, passes | `TablesDecode`, `ScansAgree`, `TurnedAsAsked`, `PixelsRestored`, `ColorsQuantized` |

`jpeg_parts` is one run of four independent parts: `part`, chosen in the initial
state, says whose steps are taken, and each property holds trivially of the parts
that rest.

Four runs end in a counterexample, against what a comment or the documentation says
(quoted in `PROJECT.json`, "findings"):

| run | property | what it shows |
|---|---|---|
| `layer_nested` | `OneTransition` | a second load with a transition nests transitions, where the comment says that the first is destroyed (`LayerImplementor.as:166`) |
| `old_filters` | `OldFiltersGone` | when a transition is built, the controls of the old content's filters stay in the pane, where the comment says that they are told to go (`LayerImplementor.as:174`): the loop walks the new content's |
| `jpeg_ahead` | `SuspendsOnlyForInput` | `jpeg_consume_input` returns JPEG_SUSPENDED though the source has input, which `libjpeg.doc:1850` excludes, when the image is not buffered (`jdcoefct.c:227`) |
| `jpeg_nearest` | `IndexClosest` | the first quantizer's "index of color closest to pixel value" (`jquant1.c:150`) is not always the closest: of two values, sample 128 is given 0 and not 255 (`jquant1.c:263`) |

Some properties hold what could be two: `PaneMirrors` is about controls and
about their muting, `EachRenderedOnce` also about the order of drawing,
`MixAnnounced` also says that a staggered mix is loaded to its last layer,
`OwnThumbnail` that no thumbnail is blank but an mp3's, and `DecodedAsCoded` that
the coder has a code for every symbol of a scan it optimized.

A property that holds under a condition names it: in a constant of its run
(`Overlap`, `Hides`, `MayThrow`, `UserLayers`) or in a history variable, so that
the behaviours outside the condition are still explored for the run's other
properties. `reused` marks filters that settings hand out twice, `thrown` those
whose `initialize` threw, `mutedInFade` those last muted on a content that was being
faded in, `lost` counts the LAYER_LOADED events a throw has kept from being sent,
`mixed` marks a move of a layer that is rendered with one that is not, `failed` the
mixes a layer of which failed, `alone` a mix that no other load or delete disturbs,
`late` a file given up while it was coming, `last` which file was taken last,
`calls.whole` that no file was given up.

### Also seen while modelling

What the conditions above leave out is behaviour of the code that these modules
contain, and that TLC shows once the condition is dropped. In the mixer:

* a layer deleted in mid-transition disposes the old content only
  (`LayerImplementor.as:695`, `ContentTransition.as:333`): the content being
  faded in stays alive, behind nothing, and its filters' controls stay in the
  pane (`UIFilterControl.as:208`);
* a filter that throws while settings are applied leaves the content held and
  never announced (`LayerImplementor.as:210`, `216`); the display does not render
  it, and takes a wrong entry out of its list when it goes (`OutputDisplay.as:290`;
  `AnnouncedUnlessLost` counts these, `TransitionEnds` excepts them);
* settings applied with a transition reach the transition; the parameters it
  does not delegate are lost with it (`LayerSettings.as:147`, why
  `VisibleAsAsked` looks at `shellVisible`);
* a transition forwards three filter events and not FILTER_MUTED
  (`ContentTransition.as:72`): the control of a filter muted while its content
  fades in is not redrawn (why `PaneMirrors` excepts `mutedInFade`);
* settings hand out filter instances, so the two answers of a vdpong load share
  them (`LayerSettings.as:173`): replacing the first content disposes the
  filters of the second (why `PaneCoversNewest` excepts `reused`);
* a transition whose inner transition ends while it renders has its fields
  cleared under it (`ContentTransition.as:105`): the rest of that frame fails, and
  the layers above are not drawn in it (`RenderAborts`, the second case of
  `EachRenderedOnce`);
* a mix whose first layer is answered inside the call that reads it, by a camera or
  by an SWF file another layer has registered, completes with that layer alone
  (`LoadONXJob.as:267`, the second case of `LoadedMeansLoaded`);
* moving a loaded layer with an empty one leaves the list of rendered layers in
  the old order (`OutputDisplay.as:327`); from then on a transition that ends in
  mid-frame can make that frame skip a layer and draw another twice
  (`OutputDisplay.as:653`, why `EachRenderedOnce` and the theorem `OrderKept`
  except `mixed`);
* a disposed display keeps its handlers on its layers (`OutputDisplay.as:875`);
* a replaced mix goes on loading its layers (`JobManager.as:37`, `40`);
* a file that comes after its 3 s is drawn as the thumbnail of the next one
  (`AIRThumbnailState.as:235`, why `OwnThumbnail` excepts `late`);
* a last file that is drawn at once, an mp3 or a registered SWF file, leaves the
  timer running behind the end of the queue (`AIRThumbnailState.as:154`, started
  after `handler` has stopped it); the state is removed a second time, and
  `splice(-1, 1)` takes another state (`StateManager.as:55`, why `OthersKept`
  excepts such a last file).

In the codec:

* an output pass of a buffered image that jumps to a scan shows a component
  whose first scan, and so whose quantization table, has not come as grey, in
  the rows read after the table has come too: the multipliers are built at the
  start of the pass (`jddctmgr.c:149`). `LinesComplete` leaves such samples out;
  `libjpeg.doc:1886` discusses the choice of scans;
* `jpeg_write_marker` looks at `next_scanline` (`jcapimin.c:197`), which is still
  zero after the first iMCU row had to wait: the marker is then accepted between a
  scan's header and its data;
* creating the two-pass quantizer replaces ordered dither by error diffusion in the
  caller's `dither_mode` even if the first pass uses the one-pass quantizer,
  which would have honoured it (`jquant2.c:1292`).

### Bounds, and why they are enough

Mixer. Names of contents and filters are used again once their bearer is
garbage, so behaviours are unbounded; the number of names bounds what lives at
the same time. Three contents allow a transition, a transition within one, and a
load under way: the bottom of the pile, its top and one in between; what more
contents could show of the layer alone is proved. Two filters tell apart a filter that moves
from one that stays; where the user does not wait, one filter already meets every
content, and a second multiplies states beyond reach. Three layers are needed
for one to be skipped while another is rendered twice, the display has four; its
handlers only compare two at a time. `MaxLost` lets a filter that throws lose one
LAYER_LOADED in `filters_overlap`, which is enough for the next load, delete or answer to
meet it; the theorem `OnlyLostAreMissing` holds for every value of it. Two mixes replace each other, and a mix with
two layers has a first, a last and an order; the user disturbs one of them, and
leaves one alone. Three files give a late answer a next and a last file to fall
on. `Job`, `File` and the length 2 in `Mixes` bound the number of loads;
everything else is finite by itself.

Codec. The memory part of `jpeg_parts` scales the library's constants so that one array spills and
one does not: three rows of which two fit, so that the strip moves forwards,
backwards and partly; chunk sizes make the first pool of each kind both suffice and
overflow; `MaxObjects` bounds the objects besides the arrays. In its entropy part
a block has 64 coefficients, with a run over sixteen zeros, values that fill ten
bits and bytes of ones to stuff; the buffer holds less than the scan and one or
five bytes arrive at a time, so that every MCU is cut at many bits; with four
MCUs and intervals of one and two, two segments may be lost in a row or apart.
Compressor and decompressor take blocks of 2 by 2 samples (`DCTSIZE`), which
keeps every relation between rows, row groups and iMCU rows (two components, one
of them half as high, images that end within an iMCU), while their arrays stay
small. Destinations have room for two or five tokens, sources bring two or five,
and applications write or read few lines at a time: each buffer is met empty,
partly full and full. Two files with one object are enough for a table that was
sent, changed or suppressed before. Its markers part reads three bytes at a time
or all. The lists of its numbers part have sizes at and around the factors of each
algorithm, levels at both ends of the range and steps in between;
`MCJpegNumbers` says which for each.

Runs with liveness (`filters_calm`, `filters_overlap`, `mix_waits`,
`thumbs_queue`) use no symmetry; `display_frames` permutes layers and
`jpeg_parts` the values written to arrays, which no definition tells apart.

### Fairness

Frames are sent by the player as long as the program runs, and read the clock:
a transition that is rendered ends (`Layer.FairSpec`, `FFairSpec`), `Render`
happens (`Thumbnails.FairSpec`). A running `Timer` ticks (`Tick`, `Timeout`).
Only `mix_waits` assumes that the disk answers each read and each load
(`MixLoad.FairSpec`), with a content or with an error, since a mix waits for
them; a mix one of whose layers answered with an error is excepted from
`MixAnnounced`, because nothing ends it. The thumbnail queue is shown to end
without any answer. The user is never assumed to do anything. The codec has no
scheduling of its own: it is called; that a call does not wait in vain is a
safety property of what it returns (`NeverStuck`, `NeverHangs`, the end of
`MarkersSaved`).

Deadlock is checked except in `Thumbnails`, which really stops once its state is
removed, and in the runs of the compressor and the decompressor, which stop when
all files are done. In `MixLoad` the action `Finished` lets it stop only once
nothing is under way; in `jpeg_parts` coder and decoder stop only by `Done`, once all
is decoded, and the other three parts, which may end, by `Stopped`. `jpeg_nearest`
lists cases and checks no deadlock either.

## Theorems

`LayerProofs` proves, for any set of contents and any of the other constants:

* `LayerInvariant`, from which `LayerTypes`, `ShownStaysAlive`,
  `TargetStaysAlive` and, for filters that do not throw, `AnnouncedAlternates`
  (with filters, `OnlyLostAreMissing` says it of any that do).
  The invariants are not inductive by themselves: that the target stays alive
  when a transition ends, and its old content with it, needs that the parameters
  have already left that content (`TargetPastOldest`); that what a new content
  destroys is live and well typed needs `ShownAlive`, in turn that no content is
  twice in the pile. `LayerInv` is their conjunction. `AcceptKeeps` is the one
  lemma about a content that comes in, used by the three actions that take one.
* for a user who waits and loads files and devices (`CalmUser`),
  `CalmInvariant`, from which `CalmTarget`: the strengthening says that at most
  one load is under way and none during a transition (`OneLoad`), so that there
  is never a transition to nest in or a content to leak. `CalmImplementsFade` is
  the safety part of the refinement: initial states map to initial states, and
  steps to steps of `LayerFade` or to nothing, by `CalmNext` with the same
  invariant. `CalmNeverReverts` follows from it: `LayerFade` itself never goes
  back to a content it has left.
* for any user, `VisibilityFollows` (`VisibleAsAsked`). The property is about a
  content shown alone; `VisibleInv` also covers the pile that a transition leaves it
  from: when the parameters point at a content behind the layer it is the newest
  and as visible as last asked, and a content not shown yet is as it was built.

It also proves that a layer with filters is a layer
(`FiltersAreOverLayer`), so that the theorems above hold of it, and then:

* `FilterInvariant`, for any user. Its parts are that a filter held by a content has
  it as its owner (`Owned`), that the settings of two loads under way do not
  share filters (`CarriedOnce`), that disposed contents hold none (`OnlyLiveHold`)
  and that the pane covers every content of the pile (`ShownCovered`); filters
  that settings hand out twice (`reused`) are excepted from the first, second and
  last, and those that threw (`thrown`) from the last. `PaneCoversNewest`, about the newest content alone, is not
  inductive: a transition that ends within another leaves the layer with a content
  from the middle of the pile. `NewestIsCovered` follows.
* `OnlyLostAreMissing` (`AnnouncedUnlessLost`), for any user: whatever throws, the
  LAYER_LOADED and LAYER_UNLOADED sent alternate but for those lost. Each way a
  content comes in changes what is announced, what is lost and whether the layer
  is empty together (`ApplyCounts`).
* `PaneIsMirror` (`PaneMirrors`), for a user who waits. The invariant is used
  together with `CalmInv`, which says which contents there can be: when the bottom
  of the pile is cleared, the pane hears of exactly its filters (`CalmExchange`). Filters may
  throw there too: they are `thrown`, and have no control until they are gone.

`JpegMemoryProofs` proves all four properties of the memory manager, for any
arrays and values, any sizes of chunks and pools, any memory left, and any calls that
fail. `MemoryInvariant` is one invariant about the manager as a whole
(`ManagerOK`), and one about what was last granted (`GrantOK`):

* `Accounted`: the count of bytes is the sum over both pools. Every method that
  allocates is shown to keep it together with what it does to the lists, so that
  an allocation that fails halfway through an array is covered too
  (`SpaceIsAccounted`);
* `ListOK`: arrays off the list are bare, and files belong to arrays on the list
  and marked open (`NoFileIsLost`);
* `ArrayOK`: for every row of every array (`RowOK`), if it has been defined and is
  not in the buffer, or the buffer is clean, it is in the file with the value
  last written; if it is in the buffer, the buffer has that value; if it has not
  been defined, nothing but zeroes was promised of it. `RowsKept` alone is not
  inductive: a clean buffer is dropped without being written, so the file has to
  have what the buffer has, rows that are outside the file's end included.
  `EveryRowIsKept` and `GrantsRead` follow.

The methods of the manager are folds and sums over sequences. The theorems of
the libraries on induction and on folds take an operator as a parameter and cannot
be used, so the module proves what it needs in first-order form, with sets and
functions as parameters: a set of numbers with zero and every successor has all
numbers (`CountUp`, from the fact that `<` is well founded), a fold over a
finite set exists, is unique and follows its steps (`FoldExists`,
`FoldUnique`). `MemoryAssumption` says what is assumed of the constants: that sizes
and limits are natural numbers, pools' and chunks' headers are aligned and a chunk
has room for its header, array kinds are disjoint, and each array has at least one
row, a width, and an access of at least one row.

`JpegCompressProofs` proves two of the three properties of the compressor,
`ScansKept` (`ScansInOrder`) and `TablesKnown` (`TablesInForce`), for any images
(`ImagesAssumption`: their parameters have the types of `jpeglib.h`; whether they
are legal is for the code to check), blocks of any size, any quantization tables,
any number of lines written at a time, any sizes a destination may have
(`RoomsAssumption`) and any number of files. Neither says enough to be kept by a
call; `CompressInvariant` proves the conjunction `CompressInv` of

* `FileInv`: what the properties say of the file as far as it is written, table
  by table: at each scan either the file has defined the table the scan is coded
  with (`InForceAt`), or it says nothing of it and the decoder had it before;
* `TablesInv`: a table that counts as sent is what the decoder has
  (`AllSent`), and a scan whose table is not in the file is coded with one that
  will not be sent any more (`Borrowed`). Without the latter a table defined
  later would still leave the earlier scan wrong about what the file says;
* between files, `Rest`: what counts as sent the decoder of the earlier files
  has, as long as none was given up. It is what `jpeg_suppress_tables`,
  `jpeg_write_tables` and `jpeg_start_compress(FALSE)` rely on;
* in the first pass `MainPass`, after it `Turn` and `Between`: `scan_number` scans are in
  the file, `pass_number` is what that makes with or without passes for
  statistics, new tables were made for the scan whose turn it is and are still to
  be sent (`NewTables`), and `is_last_pass` is set by the last of `total_passes`, so
  that the file ends with its last scan (`Checked` has what `initial_setup` and
  `validate_script` have made sure of).

A call runs through loops over rows, row groups, MCU rows and passes. `LoopProofs` has
the one rule they need (`Repeated`: what a loop's step keeps, the loop keeps); it is
instantiated for each loop with its step and its invariant. Operations are shown to
change the fields they are about and no other (`SameBut`), so that the rows and
blocks on their way play no part in these proofs. `CompressInv` was checked by TLC on
the instance of `jpeg_compress` before it was proved.

`OutputDisplayProofs` proves, for any finite set of layers (assumption
`DisplayAssumption`), both properties of the display, `HeldIsRendered` and
`RenderedOnce`, and `OrderKept`, which the second rests on. `DisplayInv` adds to
`ValidIsHeld` and `OrderedUnlessMixed` that in mid-frame the layers drawn are those
of the end of the list, last first (`DrawnSoFar`). A frame survives a transition that ends under its
loop because taking a layer out of an ordered list and putting it back where it
belongs gives the same list (`ExchangedInPlace`); moves are `MoveKeeps`: the
index at each position of the list does not change, only who has it. A frame
that is aborted has drawn the layers at the positions above the one it stopped at,
which in an ordered list are those of a higher index (`DrawnDown`).

`MixLoadProofs` proves, for any layers, mixes and users, `WaitsForOwn` and
`LoadedIsThere`. `WaitInv` says that a job that waits has been read and has asked at
once; `MixInv` that a mix loaded alone is the only one whose loads are under way, and
that of the layers it names each one either still waits or holds what it asked
for (`AloneInv`). Answers inside the call do not make a mix any less alone: the
step that reads it puts the layers of `D` in place, and announces the mix only if
the first layer was one of them.

`ThumbnailsProofs` proves, for any finite directory, `OwnIsDrawn` and `OthersStay`. As long
as no file is given up while it is coming, the queue is in one of six stages
(`NoFile`, `Silent`, `Coming`, `MixRead`, `MixComing`, `Come`), each of which says
which listeners, loads and timer there are, and so which answer may come; leaving
happens once, from `Here` to `Gone`, because in every later stage nothing is left
that calls `_nextQueue` again, unless the last file was drawn at once and its timer
runs on. Both theorems say nothing of what happens after a file is given up
(`late`): the properties themselves except it.

`JpegImageProofs` proves of all 2^24 colors what `jpeg_parts` tries at its
levels: what the compressor stores without limiting fits a sample (`YccFits`),
gray is stored as itself (`GrayStored`), and each color comes back within one in
red, green and blue (`RgbRestored`). The conversions multiply by constants scaled
by 2^16, and the proofs bound the error of each rounding (`DivScale`).

It is otherwise about images of any size, with any number of components,
sampling factors up to the library's 4, and blocks of any size (TLC tries a few small ones):

* `TurnedAnyImage`: a transformation of `jpegtran`'s kind, trimmed or not, in color
  or made gray, gives a picture each of whose samples is the source's at the place
  the turn takes to it (`SamplesMoved`), and makes only blocks of the arrays
  asked for. Of the cosine transform it uses what the program relies on (`Cosine`): its
  functions are odd or even around the middle of a block, and it treats rows and
  columns alike. An image made gray is assumed to have a first component that is
  not subsampled (`FirstIsFull`). The argument follows the program: the parameters
  after adjusting (`Adjusted`: transposed, or no larger after trimming), the
  geometry of each component (`GeometryFacts`), the block each method puts at
  each place (`ExecutedBlocks`), and the samples in a block (`MirroredAtFacts`);
* `RowsFitBuffer`: whichever upsampling method a component has, all rows and columns
  of the image are made and none is written past the end of the buffer;
* `MergedIsSeparate`: wherever merged upsampling is used, it gives pixel for pixel
  what separate upsampling and conversion give, for any planes and odd sizes too.

The division the geometry is made of is reduced to a dozen lemmas (`DivMod`,
`RoundUpFacts`, `WholeIsPart`, `MirroredPlace`).

Only model-checked:

* liveness (`TransitionEnds`, `MixAnnounced`, `QueueEnds`, and the fairness of
  `LayerFade`), which is out of the prover's reach;
* that each MCU of a file is made of the lines it covers (`FileIsImage`): it needs an
  invariant of the row buffers, of which the proofs above are kept free;
* the properties of the codec's entropy coder, decompressor and markers, and what
  tables, progressive scans and quantization give: their modules are written with
  recursive operators, which the prover's arithmetic does not go along with;
* the values of samples made smaller and larger again (`PlaneRestored`), but for
  the places they are written to: they are averages over sets of samples.

## Not modelled

* Pixels of the mixer: what contents, filters and transitions draw, colour,
  geometry.
* Formats of the mixer: mixes, settings, thumbnail caches, the services'
  protocols. A mix is the sequence of layers it names.
* Parameters of a layer but one, since they are delegated or not, and lost or
  not, in the same way as `visible`; the channels of the display.
* The order of filters (`moveFilter`, the pane's `reorder`) and their selection.
* The listeners a disposed display keeps on its layers.
* The reference counts of SWF loaders (`ContentMC`), tempo filters and tweens:
  no run covers them; the first two are listed as hazards in `PROJECT.json`.
* Start-up, settings, quitting; MIDI, DMX, remote control, VideoPong sessions.
* The earlier releases (3.0.0 to 4.6.0) of the mixer, and the plugins.
* The codec's cosine transforms: arithmetic on 64 samples without control of its
  own, whose accuracy a model checker does not reach. Blocks are told apart by
  where they come from.
* Arithmetic coding, which the library is built without; command-line programs
  and image formats, which the recorder does not link; other systems' memory
  back ends; messages.
* Calls in a wrong state and parameters out of range, which only raise an error;
  reads and writes of a temporary file that fail; the errors for too few or too
  many colors; a transformation that keeps only a subsampled Y; an optimal table
  of no symbols at all, which no scan asks for.
* The recorder's own code: one call of the codec per frame, as one of the jobs of
  `JpegCompress`, with a destination that never suspends. The released library is
  a binary, which exports a function of another name than the source.

## Plan

1. done: `Layer` with `LayerFade`, `LayerFilters`, `OutputDisplay`, `MixLoad`,
   `Thumbnails`; the codec; the proofs above.
2. the reference counts of `ContentMC` under contents that come, go and fail
   while they load, against the specification that a loader is unloaded when
   nobody shows it; the tempo filters' handlers as they are muted, retimed,
   added and removed; tweens that replace each other.
3. a composition of `OutputDisplay` with one `Layer` per slot, to check the
   summary of a layer that `OutputDisplay` uses against `Layer` itself.
4. the order of filters in `LayerFilters`; StateManager's pauses.
5. proofs: `FileIsImage`; the decompressor and the markers, with their loops
   written by `Loops` as the compressor's are.
