# A verification of RPhoto

RPhoto is a small photo editor for digital cameras: it opens photos from a file
tree, crops, turns, resizes and annotates them, and works without loss on JPEG
files by running `jpegtran`, `jhead` and an internal `wrjpgcom` on temporary
copies. What can go wrong in it is first what happens to the *files*: which file
the window works on, which temporary files the undo history needs, who removes
them, and what is saved when. Next to that it is the selection that is cropped:
a rectangle that mouse, keys, zooms and photos change in any order, under
limits and ratios that are applied one after another. And behind both it is what
becomes of the photo itself on its way through the JPEG library, which the
program builds in a version of its own (`lib/jpeg-6b-crop`): its samples, its
markers, its comment, its colours.

This directory holds TLA+ modules that model these parts of the program, TLC
configurations that check them, and theorems checked with TLAPS.
Paths without a directory (`RatioFrame.cpp:1084`) are in `src/src/`, names of
files of the JPEG library (`jdcoefct.c:489`) are in `src/lib/jpeg-6b-crop/`.

## 1. The system and its parts

| Part | State | Operations | What is hard |
|---|---|---|---|
| Document (`RatioFrame`) | `m_sOriginalFilename`, `m_sFilename`, `m_bTemp`, `m_bDirty`, `m_bJPEGlossless`, the picture, the comment field, `m_iOrientation`, `m_isFileLoading` | load, edit, comment, save, save as, move, rename, delete, reload, close | handlers call one another (`ImageLoad` → `ImageCleanup` → `OnFileSave` → `OnFileSaveAs` → `ImageSaveAs` → `ImageCleanup` …) and each assigns some of the fields before and some after the calls |
| Histories (`rpUndo`, `rpImage`, `rpMove`) | two lists that own their entries; an `rpImage` records the fields above and owns its temporary file | `imageUndoPoint`, undo, redo | destructors remove files; undo and redo pass ownership between the lists and the document |
| Disk | photos and temporary files | copy, rename, remove, encode | failures are ignored by the callers |
| Automatic settings | auto-save (in place, or to a folder or suffix), auto-crop, auto-rotate, crop after rotation, select all | read inside the handlers | each makes another edit or save happen in the middle of a load, a save or the end |
| Trackers (`lib/wxRectTracker`), image box (`RatioImageBox`) | rectangle, mouse capture, drag state, scale | mouse and key events, calls of the window | events in any order, constraints applied one after another, rounding between two coordinate systems |
| Markers and comment (`lib/wxJPEGExifHandler`, `wrjpgcom.inc`, `lib/wxmisc/str64`) | markers of a file, options of the image | read, keep, write | lengths in 16 bits, order of markers, files that do not end as they should |
| Searches in `Resize` and `OnImageJPEGDetectQuality` | an interval | bisect on the length of a file | termination, rounding |
| Lossless tools (`jpegtran.c`, `transupp.c`) | the blocks of a photo | flip, turn, transpose, crop, trim | partial iMCUs at the edges, factors that differ, two attempts |
| Coding of scans (`jchuff.c`, `jcphuff.c`, `jdhuff.c`, `jdphuff.c`, `jcparam.c`) | tables, the state of a scan | count, send, read | progressive scans refine one another, runs over blocks, restarts |
| Decompressor (`jdapimin.c`, `jdinput.c`, `jdcoefct.c`, `jdmainct.c`, `jdpostct.c`, …) | the scan that comes in, the pass that goes out, rows lent to one another | header, scans, passes | the source may run dry anywhere; passes overtake scans; rows need their neighbours |
| Compressor (`jcapistd.c`, `jcmainct.c`, `jcprepct.c`, `jccoefct.c`, …) | lines, rows, MCUs | write lines, passes | the destination may suspend anywhere |
| Transforms, colours, quantizers (`jcdctmgr.c`, `jidct*.c`, `jccolor.c`, `jquant*.c`, …) | tables | there and back | fixed point, limits, tables that stay when the mode changes |
| Memory (`jmemmgr.c`) | virtual arrays | open a strip | a window that moves over a backing store |
| Controls, settings dialog, application | widgets, configuration | – | the guard `isInUpdate` |

The parts meet in the main window: the trackers tell `RatioFrame` whether there
is a zone or a line, the settings dialog gives it constants between two
commands, the tree and the drop target call `OnDirCtrlChange` and `LoadFile`,
the tools transform the working file, and the histories read and write the
fields of the window directly (they are friends). The tools and the image
handler are the callers of the JPEG library. Within it the controllers call one
another a row, an iMCU row or an MCU at a time, and any of them may be sent back
by a source or a destination that suspends.

What makes the document side correct:

* a photo leaves the disk only when the user deletes or moves it;
* a temporary file has one owner, lives while it has, and is never rewritten;
* what is shown in lossless mode is the file the tools and Save work on;
* every edit can be undone, within the limit of the setting, as if the histories held pictures;
* what is marked as saved is on disk, and what is not saved is marked;
* every handler returns.

What makes the selection correct:

* the zone that is cropped is a part of the photo, and has the ratio chosen;
* what a drag draws is what its release selects; a key that moves does not resize;
* the window has the mouse in a drag only, and gives it back at its end.

What makes the photo come through:

* lossless transforms put every sample where geometry does, and compose;
* what is coded is what is read, in any scans, with any tables, and damage stays where it is;
* rows and blocks are those of the picture, however they are asked for and wherever the data is late;
* markers, comment, density and colour space follow the picture;
* samples and colours return from a save as closely as the arithmetic allows, and a second save adds nothing.

## 2. Modules

The document and its editor:

* **`RatioFrame`** – the document, the histories, the disk, and the handlers.
* **`UndoEditor`** – the abstract editor: a picture with a past and a future, both made of pictures, above the photos on disk.
* **`RatioFrameEditor`** – the refinement mapping: `RatioFrame` implements `UndoEditor`.
* **`MCRatioFrame`** – instances for TLC: the destinations of the automatic save.
* **`RatioFrameProofs`**, **`RatioFrameFlagProofs`** – theorems about `RatioFrame`: types, histories and temporary names; the flag and the mark. **`RatioFrameEditorProofs`** – the lossless tools, and the window implements the editor.

Around it:

* **`RectTracker`** – the selection rectangle, its corrections, the mouse, the keys, and the calls of the image box and of the main window.
* **`LineTracker`** – the line of the inclination mode, which is `RectTracker`'s rectangle with a diagonal.
* **`PhotoMarkers`** (with **`Base64`**) – the markers and the comment of a photo, edited in memory (`imagejpg.cpp`) and losslessly (`wrjpgcom.inc`).
* **`SizeSearch`** – the two bisections and the sizes typed.
* **`WindowParts`** – these four in one specification, one at work at a time, and their properties. **`MCWindowParts`** – an instance for TLC. **`WindowPartsProofs`** – theorems about the selection, the line and the searches.

The JPEG library:

* **`JpegTran`** – the lossless commands: `jpegtran.c`, `transupp.c`, and the two attempts of `CallJPEGTranTryPerfect`. **`MCJpegTran`** – a small instance of it alone.
* **`ScanCoding`** – scripts, the sequential and the progressive encoder, the decoders; their loops are recursive functions over their turns (`Turns`). **`HuffmanTable`** – the codes made for a picture.
* **`RestartMarkers`** – reading on after damage.
* **`PlainArray`**, **`VirtualArray`**, **`VirtualArrayProofs`** – what a virtual array promises, what `jmemmgr.c` does, and the proof that the one implements the other.
* **`DecodeRows`** – rows out of the decompressor. **`EncodeRows`** – lines into the compressor.
* **`StreamHeaders`** – what one writes in the markers and the other reads, over several datastreams.
* **`CoefController`** – scans in, passes out, and the coefficients between.
* **`BlockTransforms`** – a block through the DCTs and the quantization, and again.
* **`ColourSpaces`** – a pixel through the conversions.
* **`OnePassQuant`**, **`TwoPassQuant`** – the colour quantizers.
* **`TransformPart`**, **`CoefPart`**, **`ColourPart`** – the three parts that have theorems, each with its variables and an instance of its module.
* **`PictureParts`** – all of these in one specification, one at work at a time, and their properties. **`MCPictureParts`** – an instance for TLC.
* **`JpegTranProofs`**, **`CoefControllerProofs`** – the invariants of `JpegTran` and `CoefController`. **`PicturePartsProofs`** – the colours, and the theorems about the five properties.

The parts share little. `RatioFrame` knows only whether a zone is drawn (`doc.zone`),
and `RectTracker` is given the photos that are loaded, turned or restored as sizes; an edit makes a
new version in `RatioFrame`, and what the tools do to the samples is `JpegTran`. `VirtualArray` is
why `JpegTran`, `EncodeRows` and `CoefController` may take their arrays for plain ones, `HuffmanTable` why
`ScanCoding` may send symbols instead of codes, `ScanCoding` why `CoefController` may take a scan for a set of coefficients.

### State of `RatioFrame`

| Variable | Code |
|---|---|
| `disk` | the files that exist, each with what is seen in it (`version`), whether its pixels have been encoded again (`recoded`) and its orientation tag (`exif`) |
| `doc.orig`, `.file`, `.temp`, `.dirty`, `.lossless` | `m_sOriginalFilename`, `m_sFilename`, `m_bTemp`, `m_bDirty`, `m_bJPEGlossless` |
| `doc.shown`, `.zone`, `.line`, `.inclin` | the picture of `m_pImageBox`, whether a crop zone or a line is drawn, the inclination mode |
| `commented` | `m_pTextComment->IsModified()` |
| `orientation` | `m_iOrientation # 1` |
| `undo`, `redo` | `m_HistoryUndo`, `m_HistoryRedo`, last entry on top; an `image` entry is an `rpImage` (it keeps the picture only when the lossless mode is off, `RatioFrame.h:344`), a `move` entry an `rpMove` |
| `loading` | `m_isFileLoading` |
| `todo` | the calls the running handler has still to make, the next one first |
| `fresh` | counts the temporary names and the versions given so far |
| `running` | the window exists |

Photos are names, versions of a picture are numbers: an edit makes the version
`fresh + 1`, a copy keeps the version, encoding sets `recoded`, saving to
another format loses the markers. Temporary files are numbers too, never given twice,
as `CreateTempFileName` promises.

### Steps of `RatioFrame`

A menu command, a selection in the tree, a drop or the end of the program is an
action `Command`, possible when no handler runs. A handler that stays in one
piece (an edit, undo, redo, a move) is one action; one that calls others or
opens a dialog pushes calls on `todo`, and every action of `Handler` makes the
next call or runs the code between two calls. So `OnFileOpen` is the action
`OnFileOpen`, then the actions of `ImageCleanup`, `ImageLoad`, `LoadBody` (1083–1115),
`LoadEnd` (1117–1130) and `Adopt` (1444–1445), with whatever the prompt, the
automatic crop and Save push between them. `IfClean` is the code each caller
runs when `ImageCleanup` returns true. The dialogs are modal, so no command
starts while `todo` is not empty; the answers of the user (`PromptYes`, `PromptNo`,
`PromptCancel`, `SaveComment`, `LeaveComment`, any name or none in
`OnFileSaveAs`) are separate actions or an existential choice.

Three details of the code that the model keeps because properties depend on them:
`UpdateControlsState` marks the document again while a comment is pending (754),
so that `Clean()` clears the mark only without one, except inside
`OnFileDelete`, where `isInUpdate` is set; `imageUndoPoint` does nothing before
the first photo (2443); an entry that is restored keeps its file (`RatioFrame.h:357`),
one that cannot be restored is freed with it.

### `RectTracker`

| Variable | Code |
|---|---|
| `rect`, `prevRect`, `leftClick` | `m_Rect`, `m_prevRect`, `m_leftClick` |
| `dragging`, `captured`, `disabled` | the bits `RT_STATE_DRAGGING`, `_MOUSE_CAPTURED`, `_DISABLED` of `m_state` |
| `rules` | `m_maxRect`, `ratio`, `fixedWidth` and `fixedHeight`, `orientation` |
| `view` | the size of the photo, `GetScaleValue()`, `originalFixedTrackerSize` |
| `held` | the left button |
| `calls` | counts the calls, bounded by `MaxCalls` |

Each event of the mouse or the keyboard is an action, and so is each call that
ends in `Update()` or `SetUnscrolledRect`. `AdjustTrackerRect(k, r, hit)` is the
chain of corrections under the rules `k`: the limits, the fixed size, the ratio,
and the second pass of both. A handle is a set of sides, as the bits of
`RT_HANDLER` are; `RT_HANDLER_OUTSIDE`, −1, has all bits and is all sides, which
is how `Update` corrects a rectangle. A call that shows another photo first updates the
selection under the new limits and then resets or spreads it; only the result is
kept, except where the code updates between (`Rescaled`, which is `AdjustTrackerSize`,
and `GetSelectedZone`). The button may be pressed and released where the window does not
see it (`PressElsewhere`, `ReleaseElsewhere`), but not released unseen while it has the mouse.

The scale is `1/z`, so that the conversions are quotients of integers cut towards
zero (`Trunc`); the error of a floating-point quotient just below an integer is not modelled.
A ratio is a fraction, `<<0, 1>>` none; its products are cut the same way. The candidates that
`AdjustTrackerRectRatio` gives up get the size −12000, as in the code (`FarAway`).

### The parts of the window: `WindowParts`

`LineTracker` inherits as the class does: its corrections and its first hit test are those of an instance of `RectTracker`
without ratio and fixed size. The line is the rectangle `rect` with two of its corners, `begin` and `end`
(`m_iBeginHandler`, `m_iEndHandler`); `curBegin` and `curEnd` are the copies a drag works on. The constructor does not set
the corners: what the memory holds is a choice of `Init`, no corner standing for a value that names none.
`fresh` is a history variable that the guards do not read: a call of the window has not touched the line since it was
drawn or moved.

`PhotoMarkers` takes a file as the sequence of its markers, each with a kind and a short body, and what follows the
frame as one more. `Open`, an edit in memory and a save go through the options (`SAVE_OPTION`, `setImageOptions`,
`copy_variable`), whose bodies are Base64 strings joined by `#`; a comment on a lossless photo goes through the
states of `next_marker` and of the copying loop. Lengths count modulo `LengthRange` as they do modulo 65536.
`SizeSearch` has a curve for the length of a file as a function of the quality or of the ratio; a curve
may be erratic: then any length comes out of any attempt.

### The parts of the picture: `PictureParts`

`PartsInit` chooses the part at work, and a step of `PartsNext` is a step of that part that leaves the variables of the others alone.
What a value stands for is chosen so that a misplaced one is seen:

| Module | A datum is | An action is |
|---|---|---|
| `JpegTran` | a sample, known by where it was in the photo opened | an attempt of the tool, or a command |
| `ScanCoding` | a coefficient of few bits; the data of a scan is a sequence of bits, symbols and markers | an MCU coded or read, the end of a pass |
| `HuffmanTable` | counts and lengths | two trees joined, a length shortened, the table read |
| `RestartMarkers` | a segment or a marker, lost or changed | damage, a segment read, a step of the resynchronisation |
| `VirtualArray` | a row with a value | realize, open a strip, write a row |
| `DecodeRows` | a row, known by the row of its component | a call of the application, a step of main controller and postprocessor, an iMCU row that comes or is late |
| `EncodeRows` | a sample row, known by the lines it is made of; a block, by its rows and its column | a call, lines converted, an MCU taken or refused |
| `StreamHeaders` | a marker with its parameters; a table is a number | a marker written, a marker read or begun again |
| `CoefController` | a block is the sequence of the scans decoded into it | an entry point, an MCU that comes or is late, an iMCU row put out |
| `BlockTransforms` | 64 integers | a pass of a transform |
| `ColourSpaces` | a pixel | a conversion |
| `OnePassQuant`, `TwoPassQuant` | a row of pixels | a row, a pixel, a box cut, a pass begun |

## 3. Runs

Each run of the document instantiates the settings, the set of commands the user gives, and
the bounds, with two or three names. Deadlock is not checked anywhere: the program ends with `Destroy`, a
photo has been put out, and the bounds stop the commands.

| Run | Question | Checked |
|---|---|---|
| `lossless` | JPEG photos, lossless tools, undo, redo, save, reload, all ways of loading | `TypeOK`, `TempsOwnedOnce`, `TempsReclaimed`, `HistoryBounded`, `EditsUndoable`, `ImplementsEditor` |
| `memory` | other formats, edited in memory, automatic crop, rotation to a line | `ImplementsEditor` |
| `modes` | the lossless mode switched off between edits, automatic rotation, comments, tools that fail | `LosslessShowsWorkingFile`, `TempsNeverRewritten`, `TempFlagSound`, `CommentMarked` |
| `autosave` | automatic save to another name with the automatic crop inside `ImageCleanup`, a photo that cannot be written (`FairSpec`) | `LeavingKeepsWork`, `CleanIsSaved`, `HandlersReturn` |
| `files` | save as, save to a path, move, rename, delete, onto other photos too | `PhotosKept` |
| `window_parts` | the selection, and the line, under mouse, keys and calls in any order; markers and comment through three edits; the searches | `CaptureOwned`, `CropZoneInImage`, `RatioKept`, `DrawnIsShown`; `MarkersKept`, `CommentShown`; `SearchesFind`; `LoopsEnd` |
| `picture_parts` | a picture through each part of the JPEG library | `SamplesPlaced`, `TransformsCompose`, `HeaderFollows` (`JpegTran`); `CoefficientsSent`, `CodesAgree` (`ScanCoding`, `HuffmanTable`); `DamageStays` (`RestartMarkers`); `ImplementsPlainArray` (`VirtualArray`); `RowsRight`; `BlocksRight`; `HeadersAgree`; `PassShowsScan`; `SamplesReturn`; `ColoursReturn`; `PassesMapColours`; `ColoursFound`; `ReadingEnds` |

Five runs show where the program departs from what its comments or its dialogs say:

| Run | Property violated | What happens |
|---|---|---|
| `photo_lost_comment` | `PhotosKept` | Save to a path with a pending comment: `ImageCleanup` inside `ImageSaveAs` makes a temporary file, then line 1512 gives the saved photo the flag, and the destructor of the window removes the photo |
| `opened_turned` | `PhotosKept` | A photo opened from the menu after an edit given up, and turned automatically: the undo point of the rotation has the photo's name and the flag of the edit (983), and the end of the program removes the photo |
| `rename_overwrites` | `MovesLoseNothing` | Renaming to a name that exists shows "File name exists already." and renames all the same (no `return` at 2520) |
| `saved_as_original` | `SaveAsWritesShown` | "Save the current file under another name." (373) after a vertical flip, which does not mark the document: `ImageSaveAs` gives the temporary file up (1492) and copies the original (1496), and the flip is missing from the new file |
| `transformed_twice` | `TrimAfterFailure` | `jpegtran` reports a failure when it has only warned, after it has written its output: the second attempt transforms the photo once more |

Others were met with the same modules and other constants, and are recorded here without a run:

* The vertical flip does not mark the document (1927), so the automatic save of `help_en.html:172` skips it.
* Redo of a move calls `restore` (1698), which undoes once more; the help (`help_en.html:161`) promises a redo.
* `AutoSave` to another place and a pending comment: `ImageSaveAs` and `ImageCleanup` call each other without end.
* A photo loaded in the inclination mode switches the lossless mode on again: the rotation is not in the file Save copies (`LosslessShowsWorkingFile`).
* Save As and save to a path encode the pixels again when the document is marked, in lossless mode too, since the copy is for documents without a mark (1493); and they leave the temporary file behind (`TempsReclaimed`). So does a reload or an opening whose automatic crop or rotation is followed by a cancelled prompt.
* Undo and redo restore the mark of an earlier time, so that the automatic save may skip the restored picture (`LeavingKeepsWork`); after rotate, save, rotate, save and undo the document is not marked and is not what is on disk (`CleanIsSaved`).
* Once the lossless mode is off, several entries share one temporary file, and freeing the oldest removes it (`EditsUndoable`): after rotate, lossless mode off, rotate, undo and rotate the next undo is refused without a word, since its file is gone.
* Moves and renames are recorded without the limit of the setting (`HistoryBounded`; deliberate, 1570).
* An own Adobe marker (colours RGB, CMYK or YCCK) comes before the copied markers (`jcmarker.c:482`), so that an Exif marker is no longer the first one in the file: the next command, or the second attempt on a damaged
  photo, leaves the size in it as it was (`transupp.c:1315`). `HeaderFollows` asks for the size of one command on an Exif marker that is first.
* The result of the search for a size may be above the size asked for (2230), and the picture's own ratio is an integer division (2150): for a landscape it is rounded down, and for a portrait it is 0, so that a size with a 0, "apply ratio" in the dialogue of 1997, is refused as invalid.
* The streams of the comment writer are never closed, neither at its end nor when it gives up (452, 479). The model takes the output as complete once the rest is copied; in the build its last buffer reaches the file when the C library flushes it. When the writer gives up half way, what it has copied stays the working file.
* `jdpostct.c:217`: the last pass of a two-pass quantization leaves `next_row` out of account at the bottom; with vertical factors of 3 or 4 it may give rows below the picture. `RowsRight` leaves such pictures out.
* `jddctmgr.c:147` leaves the multipliers of a component without a saved quantization table at zero, since "we'll be reading zeroes from the coefficient controller's buffer anyway"; that is not so when its first scan arrives during the pass. `PassShowsScan` leaves such passes out.
* The fast transforms are of no use with fine tables: their last divisors round to 1, their last multipliers to 0. `SamplesReturn` asks for steps of 9 and more there.
* `jquant1.c:548` states the largest dither as `MAXJSAMPLE`; it is half of that.
* Three damaged restart markers in a row, or data that damage makes a marker, may shift the rest of a scan (`DamageStays` has two damaged items). So do two markers that damage
  changes to different numbers, ahead of what is due by one and then by two: the decoder is then three ahead of its data, where `jpeg_resync_to_restart` no longer tells a prior marker from one too far away, and it
  discards every marker to the end of the scan. In the model the markers that are changed read one number.

This list is the reason why the passing runs separate the commands: the properties
are checked where the code keeps them, and the list says where it does not.

What `RectTracker` keeps of the code, and its properties allow for:

* A click without a motion selects the rectangle of the drag before (`RectTracker.cpp:446`), corrected for the present photo.
* Escape and the inclination mode leave a drag begun (`RectTracker.cpp:182`, 629): the next release ends it.
* A drag begun outside the photo may give a rectangle of negative size, which cannot be cropped.
* The size of a fixed selection is not kept: an earlier ratio stays in force under it, and a change of scale sets the new fixed size after the last update (`RatioImageBox.cpp:269`). `RatioKept` and `DrawnIsShown` (`CorrectionsSettle`) therefore ask for no fixed size.
* "Second Pass - Adjust if new rect has been out of the max rect." (`RectTrackerRatio.cpp:136`) is not always enough. With an automatic orientation each pass
  turns the ratio to the side of its own rectangle, and a drag by one side of a rectangle may be turned by one pass only. In a photo of 14×5
  with the ratio 4:3, the selection of 5×4 at (9, 0), dragged by the handle at the bottom (12, 4) down to (13, 24), is drawn 5×6, beyond the photo, and the release makes
  of that a rectangle of −12000 in height, which is no selection. `DrawnIsSelected` leaves out such drags (`MayTurn`) and no others.
* A click outside does not remove a selection of fixed size, as the help says it does (`help_en.html:122`).
* A ratio of 2:1 and more can let the distance to the rejected candidate, −12000, overflow the `int` it is computed in (`RectTrackerRatio.cpp:32`, 103); it does not fit the integers of TLC either, so the runs use 3:2.
* Undo after a change between 100% and fit rescales the selection it has just restored (`RatioFrame.h:370`).

And `LineTracker`; `LineAsDrawn` speaks of lines that no call of the window has touched:

* The copies `m_pCurBegin` and `m_pCurEnd` are renewed at the begin of a drag only if none has begun (`LineTracker.cpp:205`), and the press has begun it already (`RectTracker.cpp:410`). After a zoom, a load or an undo, dragging one end, clicking on the line or pressing an arrow therefore brings back the line of the last drag, in its old scale.
* An undo restores the rectangle of the line and not its corners (`RatioFrame.h:368`): the line may come back mirrored, and the rotation to it turns the other way.
* "Distance entre le point et le segment" (308) is the distance to the whole line. A press outside hides the line first, and what is then looked for is the diagonal of the hidden rectangle: a new line that begins near that diagonal does not begin at the click.
* The corners are read before they are set when the scale changes before the first line is drawn (`RatioImageBox.cpp:286`).
* The limits include the first pixel beyond the photo, and each end is limited on its own: a line moved to the border changes its angle.
* `LineTracker.cpp:337` and 342 limit `y` with the horizontal limits, which begin at 0 as well.

### Bounds

**Document.** `MaxFresh` bounds the versions and temporary files commands make (edits that a
running handler makes are not cut off, so no behaviour stops in the middle).
Three edits and a history of two (`MaxUndo`) in `lossless` reach every interesting case:
entries freed at the limit while the document and a younger entry live on, undo
below a load, redo cleared by an edit. `files` takes one edit and a history of one
with every operation on names. `MaxHistory` bounds both histories together, which
undo, redo and moves would extend without end. `MaxPending` bounds the calls
pending; no passing run meets it, so it cuts nothing.
Two names show everything one photo can do to another; the third is the destination of the automatic save.

**Selection.** Photos of 2×2 and 2×1 pixels, scales 1 and ½, the ratio 3:2, one fixed size
and two points of the mouse, one in the photo and one outside it on two sides, so that drags
start inside and outside and mirror the rectangle; with handles of width 0 every side, corner and
the inside can be hit. `MaxCalls` bounds the calls of the window to two, enough for a change of
photo or scale under a ratio, in the middle of a drag. The theorems of section 4 hold for all photos.

**Markers and searches.** Three edits; markers keep 3 bytes (`SaveLimit`, 32000 in the code) and lengths count modulo 8
(65536), so that short comments are cut by either. The curves of the searches rise anywhere in the range of the
quality, at once or slowly, or beyond either end.

**Pictures.** Blocks of 2×2 samples in `JpegTran` and `EncodeRows`, 4×4 in `DecodeRows`, six coefficients in `ScanCoding`, three in
`CoefController`: the code does not depend on the number. The sizes end anywhere within an iMCU, the factors
are those that take each of the routines, two components differ in them. Three and four components, with
markers that leave their colours to the Adobe marker or to the names of the components, make the writer put a JFIF marker, an Adobe marker or neither before an Exif marker. Codes have three bits at most, which skewed
counts of six symbols exceed. Nine segments make the numbers of restart markers come round, with two damaged items; markers that are changed
read one number. Two datastreams share tables. `BlockTransforms`, `ColourSpaces` and the quantizers take the sizes of the
code; the blocks are flat, single dots, checks, ramps and textures under four tables, the levels
of a sample both ends of the range, its middle and some between. A count of the histogram stops at `CellMax` = 3, where the code
stops at 65535. An application goes through two or three passes (`MaxPasses`, `Passes`), enough for every change from one mode or colour map to another.

### Fairness

`autosave` states `HandlersReturn` under `WF_vars(Handler)`: a handler of the event loop runs to its end,
and a modal dialog is answered. `LoopsEnd` and `ReadingEnds` are stated under weak fairness of the one loop they are
about (the comment writer, a search, the reader of a scan, an entry point of the decompressor): sequential code
runs on once it has been called. No fairness is assumed of commands, of the application, nor of a source or a
destination: `CallsReturn` of `CoefController`, a part of `ReadingEnds`, counts a call that suspends as one that has returned.

### Mutants

For every property of every passing run PROJECT.json names a mistake one could
make in the code (an entry that forgets the flag, a `Dirty()` left out, a save that copies the wrong way,
a half that is rounded up, a cache that is not emptied …), as a definition marked `mutant`
next to the one it replaces. With the mistake the property fails in the same
run, so none of them holds by the shape of the model. A property that joins two
(`CodesAgree`, `SearchesFind`, `LoopsEnd`, `ReadingEnds`, `DrawnIsShown`) has one or two mutants.

## 4. Proofs

`RatioFrameProofs.tla` proves, for all photos, settings, commands and bounds
allowed by the assumptions of `RatioFrame` (names are not numbers, the
maximum of the history is a natural number):

* **`TypeCorrect`**: `Spec => []TypeOK`. `TypeOK` is inductive. Beyond the types it
  says which calls may come without a name, that a document without the
  temporary flag is not on a temporary file (`Opened`), and that
  nothing is recorded and no comment pending before the first photo; these parts make
  the induction go through, since `SaveAsEnd`, `Adopt` and undo put the names of calls
  and entries into the document. One lemma per group of actions, and under it one step per
  action; lemmas on sequences, on the file operations and on the two kinds of edit come first.
* **`HistoryWithinSetting`**: without moves and renames, `Spec => []HistoryBounded`. An undo
  point frees the redo history and cuts the undo history; undo and redo take an entry
  from one and add one to the other, and nothing else touches them. The assumption is needed
  because moves are recorded without a limit.

* **`TempsWrittenOnce`**: `Spec => TempsNeverRewritten`, for all settings and commands: a temporary file keeps its content as long as it
  exists. The invariant it needs is `TempsNamed`, that the numbers of the temporary files on the disk have been given (`t <= fresh`): an edit, a tool, a
  comment or a rotation inside a load writes to `fresh + 1`, and every other write is to the name of a photo.

`RatioFrameFlagProofs.tla` proves two more under the assumption `NoNestedEdit`: no automatic
rotation, no automatic crop, no comment command.

* **`FlagNeverOnPhoto`**: `Spec => []TempFlagSound`.
* **`NoPhotoLost`**: `Spec => PhotosKept`.

`TempFlagSound` is not inductive: `ImageLoad` called by `OnFileOpen` or `OnFileReload` gives the document
the name of a photo while `m_bTemp` may still be set (1084), and only the assignments
after the call (1444–1445) clear it. The invariant `FlagInv` therefore says what the
pending calls look like. Such a load is always followed by `LoadEnd` and `Adopt` (`Orderly`);
a load that is not (the one after Save and Save As) and the end of `ImageSaveAs` only happen
while the flag and the mark are clear (`Saved`, in `CallsOrderly`); and while the flag is on a photo,
`Adopt` is the next call or the one after `LoadEnd` (`AdoptPending`). One lemma per group of actions
shows that `FlagInv` is kept, with lemmas on pushing calls before an orderly sequence.
`NoPhotoLost` follows: what undo points, undo and the destructors remove (`Owned`) is temporary.
The assumption is necessary: an edit made inside `ImageCleanup` or at the end of
`ImageLoad` sets the flag between the two, and the photo is lost (runs `photo_lost_comment` and `opened_turned`).

And one for all settings, under the assumption that no photo is deleted:

* **`CommentIsMarked`**: `Spec => []CommentMarked`.

A comment that is typed marks the document, but a save, an undo and a load clear the mark while their calls are pending, and only
`UpdateControlsState` at the end of some of them sets it again. The invariant `MarkInv` follows the calls on `todo`: one that may take the mark away and leave the
comment (`Unmarks`) has one that takes the comment away too or sets the mark again (`Settles`) behind it, and so has a document that is not marked
while a comment is pending. A load refused because another one runs settles nothing, so that both depend on whether a `LoadEnd` comes first (`Loose`). Deleting is excluded
since `OnFileDelete` clears the mark with `isInUpdate` set and nothing sets it again.

`RatioFrameEditorProofs.tla` proves, for all JPEG photos, lengths of the histories and of a session, and tools that fail or do not:

* **`LosslessTempsOwned`**: `Spec => []TempsOwnedOnce`, and **`LosslessTempsReclaimed`**: `Spec => []TempsReclaimed`.
* **`LosslessShown`**: `Spec => []LosslessShowsWorkingFile`.
* **`LosslessEditsUndoable`**: `Spec => EditsUndoable`.
* **`LosslessCleanSaved`**: `Spec => []CleanIsSaved`.

The assumption `LosslessOnly` takes the program as its users of lossless edits do: photos that are JPEG files and can be written, the transforms, undo, redo, every way to load and
the save in place. Each exclusion is one that breaks a property, and section 3 names where: the mode switched off lets entries share a file, a photo
that cannot be written and Save As leave files behind, an automatic crop or rotation edits inside a load, and a save elsewhere leaves the document on its temporary file.
No property of the five is inductive alone: what an undo point may free depends on who owns the file the document is on, what is
shown depends on which file that is, and between the undo point of a load and its end the document holds a file that an entry owns already. `LosslessInv` joins `Control`, which calls may be
pending and what is known of the document before each; `Ownership`, that the files on the disk are the photos and one temporary file for every owner, from the undo point of a load on
without the document's (`Replacing`); `ShowsFile`; `AllReadable`; `TempsNamed`, without which the file a tool makes might be one that has an owner; and `Ended`, what
the destructors leave. `LosslessSteps` sorts the steps into nine kinds, and one lemma takes each of them through the invariant. With `MaxUndo` = 0 an undo point frees
the very file the tool is about to read, and the tool leaves a file that cannot be shown: `AllReadable` excepts that limit, and `LosslessCleanSaved` assumes another one.
`CleanIsSaved` needs more (`EditsMark`): the automatic save in place (the run `autosave` takes the save elsewhere), without which the mark is cleared by an answer, and none of the commands that change the picture
and do not mark it (undo, redo, vertical flip, progressive coding). `SavedInv` says that a temporary file the document is on and that is not marked is the same as its photo, but not
between the undo point of a load and its end.

It also proves, under `LosslessOnly` and `MaxUndo > 0`:

* **`WindowImplementsEditor`**: `Spec => ImplementsEditor`, the specification of `UndoEditor` under the mapping of `RatioFrameEditor`.

The kinds of steps of `LosslessSteps` map one to one: an edit to `Edit`, the undo point of a load to `Leave` and its body to `Load`, a save to `Save`, undo and redo to their own, the end of the
window to `Quit`, and the rest, which only makes calls, to stutters. What makes the mapping hold is that a picture is read from the file an entry owns:
`PicturesKept` (nothing a step removes or writes belongs to an entry that stays) rests on `Ownership`, and the new picture of an edit on `Made`, that the versions have been given.

`WindowPartsProofs.tla` proves about the selection, for all photos, scales, ratios, sizes, points and numbers of calls:

* **`CaptureIsOwned`**: `Spec => []CaptureOwned`, which is inductive.
* **`SelectionKept`**: `Spec => []Strong`. `Strong` says that the limits are those of the photo and the scale
  shown, and that the selection is one that `Update` leaves (`Kept`): without pixels, or inside
  the limits and in the ratio, unless a size is fixed (it may exceed the photo, and only the zone that is
  cropped matters then).
* **`TypesKept`**, **`ZoneInImage`** and **`RatioIsKept`**: `Spec => []TypeOK`, `Spec => []CropZoneInImage` and
  `Spec => []RatioKept`, which follow from it.

`CropZoneInImage` is not inductive, since it says nothing of the limits the next correction
uses, nor of a selection without pixels. The argument is about the corrections: the limits end inside (`MaxInside`),
a fixed size that fits is placed inside (`FixedInside`), and the second pass of the ratio, for a rectangle
inside the limits, takes a candidate that is no larger in one dimension, or one without pixels, each
computed from the ratio (`RatioCandidates`, `SecondPass`). So `Update` leaves any rectangle `Kept`
(`UpdatedKept`), and each action is shown to end in an update or a reset under the rules it sets. The step
from the view to the photo is `TruncTimes`: a length that is cut when it is divided by the scale is not
longer when it is multiplied again.

* **`CorrectionsAreSettled`**: `Spec => CorrectionsSettle`: a drag and an arrow end as they were drawn, and a call draws nothing.

A rectangle `Suits` the rules when it is inside the limits and one of its sides is the one the ratio gives for the other: for such a rectangle the second
pass and the update of the release find it among their own candidates at the distance 0 (`RatioKeeps`, `NearerKeeps`), so that it stays (`AdjustKeeps`). `AdjustSuits` shows that what a drag draws suits or has no pixels, handle by handle.
A corner and the inside keep the side that was given. A side handle computes the other one, and the second pass computes the given side from it again: `ThereAndBack` says that a length cut to a multiple in
one direction is found again on the way back, if both passes turn the ratio alike, which is what `~MayTurn` is for.

And about the parts of the window together, for all curves, sizes, pictures, scales, points and numbers of calls:

* **`DrawnIsRight`**: `PartsSpec => DrawnIsShown`, for the selection from `CorrectionsAreSettled`, and for the line from an invariant of its own (`LineInv`).
* **`SearchesAreRight`**: `PartsSpec => []SearchesFind`.

`LineAsDrawn` with `LineCaptureOwned` and the types is inductive. The two facts behind it are that the diagonal made of two points has these points as its begin and its end,
in all four directions (`DiagonalEnds`), and that limiting a point twice is limiting it once (`WithinIs`), since each motion limits what the motion before has limited.
The bisection of the quality keeps `Halving`: below the interval the photo comes out too short or is the bound itself, above it too long, and the next guess is the
middle or has given the length. When two guesses are one apart, a quality that gives the length, if there is one, is within two of the last guess (`HalvingNear`), one more than the step because of the cut of the division.

`VirtualArrayProofs.tla` proves, for every size of the array, of the strips and of the memory it is given:

* **`VirtualArrayIsPlain`**: `Spec => ImplementsPlainArray`, the specification of `PlainArray` under the mapping that reads
  a row from the window when it is there and from the backing store otherwise.

The step needs an invariant, `IInv`, of four parts: `TypeInv`; `WindowInv`, that the window is the whole array or does for any
strip; `StoreInv`, that a window which is not dirty agrees with the store on the rows that are defined, without which a
window that moves on would lose rows; and `OpenInv`, that the strip a caller has open lies in the window and, when it may be
written, among the defined rows of a dirty one, without which a write could get lost. The lemmas are on the two directions of
`do_barray_io`, on the place a window moves to, and on the zeros of `first_undef_row`; then each action is shown to be a step of the plain array
or a stutter.

`PicturePartsProofs.tla` proves five properties of the parts of the picture, with the invariants of `JpegTranProofs.tla` and `CoefControllerProofs.tla`. Each of these is about the variables of one part,
and a step of another part leaves those alone; the composition is part of each theorem, which begins from `PartsSpec`.

* **`SamplesArePlaced`**: `PartsSpec => []SamplesPlaced`, and **`TransformsAgree`**: `PartsSpec => []TransformsCompose`, for photos of any size with any number of components and factors of 1 to 4, crops of any
  size and place, blocks of any even size (`FramesAssumption`), and any number of commands.

The invariant `TranInv` says how the file came about: the first attempt starts from the photo, the second does on an undamaged photo (a damaged one is what the run `transformed_twice` is about), and a file that is
done is what `jpegtran` makes of the photo, trimming or not, by a command it did not refuse; and photo and file hold a value for each sample (`WellFormed`). The rest is geometry. `Up`, a division that rounds up, is used as the least number of units that suffices
(`UpTo`), and the place of a sample as a number of blocks and a rest (`Place`). The tool flips blocks and then the samples inside each; `SampleIsAt` shows that this flips samples, if the sample lies on
the flipped side of whole iMCUs. `Whole` gives that from the trim, or from the refusal of "perfect"; only these are mirrored, so that `SamplesPlaced` asks for a crop that begins among them (`Placed`). Without trimming, a file and
its transform differ by such a map only (`TurnedSample`), and so the two sides of each equation are compared as maps of samples (`Rot90`, `Rot180`, `Rot270`, `Transverse`), partial iMCUs included.

* **`HeaderStays`**: `PartsSpec => []HeaderFollows`, for the same photos, any sequence of markers before the frame, and any colours these can tell (`default_decompress_parms`).

`HeadInv` says of photo and file, before and after either attempt, that their colours can be told from their markers (`Coloured`), that an Exif marker that comes first has the size of the picture (`ExifRight`), and what the file has kept
of the photo (`HeadSame`, `HeadKept`). Exif stays first unless an Adobe marker comes before it, and then nothing is claimed of a second attempt. The colours are still told because the
writer replaces markers of its own kind only and puts back one of that kind (`ToldKept`). What the writer leaves out is `Without`, a function over the length of the sequence; that it keeps the rest
in order, and commutes with leaving out others (`WithoutTwice`), is proved by induction over the length. The library's induction theorem takes an operator; `NatInduct` and `SeqInduct` state the induction over a set of
numbers or sequences instead, from the least element of `WellFoundedInduction` (`WFMin`).

* **`PassesAreComplete`**: `PartsSpec => []PassShowsScan`, for pictures of any size, components of any factors from 1 to 4, and any scans (`ScannedAssumption`: a picture that is not progressive, and whose first scan has all
  components, has that scan only), for any order of the calls of the application, and a source that may run dry before any MCU.

The property speaks of what a pass shows, and its invariant `CoefInv` of both sides at any moment. `ArrivesWell` is the input: it knows the tables and the precision of what has arrived (`Known`), and if the picture is kept whole, every block of the picture
holds the scans that have passed it, once and in order (`Buffers`), a scan that has begun having passed the blocks before the cursor (`Arrived`, `Before`). `OutWell` is the output: the multipliers and
the latched precisions are justified by scans that had arrived when the pass began. `Shows` is what was shown last. For a picture of one scan that is not kept, output follows input MCU by MCU (`Sync`). That the cursor
passes each block once is `DecodedIs`: the blocks of the next `k` MCUs are those of the picture whose place in the scan lies between the cursor and `k` further, whatever the factors and whether the scan is interleaved or not;
`DataArrives` and `NextScan` carry `ArrivesWell` over data and over the markers between two scans. `EnoughArrived` is the point of the loops in `jdcoefct.c` that force input: when they end, the iMCU row asked for is complete in the scan asked for, and
for smoothing the row below it as well (`AroundIs`). `ArraysGiven` and `OnePassGiven` are the other two ways out of the module.

* **`ColoursAreKept`**: `PartsSpec => []ColoursReturn`, for all levels of the samples (`LevelsAssumption`: any of 0 to 255) and all pairs of colour spaces.

`Kept` says what the planes hold of the pixel, by its colour space and theirs. The rest is arithmetic over the 256³ pixels, which TLC sees few of: each fixed-point sum lies within its rounding of the exact one (`YccIs`),
so that each primary colour comes back within 1, greys come back exactly, and the lightness is within 501 thousandths (`RgbReturns`, `PixelReturns`); limiting the range takes nothing away (`Limited`).

What stays model-checked, and why:

* Liveness (`HandlersReturn`, `LoopsEnd`, `ReadingEnds`), which is out of the prover's reach.
* `ImplementsEditor` for edits in memory and after a switch of the mode, `LosslessShowsWorkingFile` with the mode switched off, and `LeavingKeepsWork`: the entries share files then, and ownership is not what holds them together.
* `MarkersKept` and `CommentShown`, which rest on Base64 strings and on concatenations of any length: inductions over sequences that have not been worked out.
* `CodesAgree`, `CoefficientsSent` and `SamplesReturn`: what recursive functions compute for every input (the trees of the codes, the runs and refinements of a scan, the transforms; the last is a matter of bounds on
  rounding over eight stages as well).
* `PassesMapColours` and `ColoursFound`: the sums and the errors the quantizers carry along a row are functions over the row.
* `DamageStays`, `RowsRight`, `BlocksRight` and `HeadersAgree`: safety of state machines, whose invariants have not been worked out (section 6).

## 5. What is not modelled

* The widgets: menus, toolbars, the tree beyond the selection it reports, guides, the settings dialog. The
  re-entrancy guard `isInUpdate` appears where `Clean()` depends on it.
* Changes other programs make to the disk, a disk that fills up, photos that cannot be
  decoded beyond an empty working file; edits before the first photo or on such a picture. No run takes the automatic save in place; `LosslessCleanSaved` does.
* Of the trackers: `RT_STATE_FIRSTDRAG`, which only decides what is erased, drawing, cursors, scrolling, the guide ratio,
  a change of `HandlesWidth` after the start, and the picture of 2×2 pixels before the first photo.
  The rectangles of undo points are inputs (`Selections`).
* Of the comment writer: what stdio has not yet written when the file is loaded again, and the bytes of a marker cut short.
* Of the JPEG library: the packing of bits into bytes (the decoder of `HuffmanTable` takes codes apart), arithmetic coding, the floating-point transforms (TLC has no
  floating point), the memory pools, the errors of malformed headers, the values that block smoothing estimates, and the programs and
  file formats `jpegtran` does not use (`cjpeg.c`, `djpeg.c`, `rdbmp.c`, …).
* `lib/wxVillaLib`, `lib/wxFix`, `lib/jpegexiforient.c`: copied from elsewhere.

## 6. Plan

1. `RatioFrame`, its instances and its first theorems; `RectTracker` and its theorems (done).
2. `UndoEditor` and the refinement; the line, markers, searches (done).
3. The JPEG library: lossless transforms, scans, tables, damage, arrays, rows, headers, coefficients, transforms, colours (done).
4. As theorems: the files of the lossless tools, the refinement, the corrections, the line, the searches (done).
5. As theorems about the library: the arrays, the colours, the passes of the decompressor, where the samples of a transform go, how transforms compose, what becomes of the markers (done).
   Next to them `RowsRight` and `BlocksRight`, for which the `Working` of section 4 is the pattern, and `DamageStays`, whose invariant is how far the decoder may be ahead of its data.
6. The memory pools, the directory tree, the readers and writers of other formats.
