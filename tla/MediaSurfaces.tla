--------------------------- MODULE MediaSurfaces ---------------------------
(***************************************************************************)
(* The media surfaces of src/src/media/surface-renderable.ts on one        *)
(* terminal: each keeps the frame it was given, puts it on the terminal    *)
(* after a frame of the renderer, takes it away when it is hidden, scrolled*)
(* out of the viewport or destroyed, and writes through a gate of its own  *)
(* that holds back while the output stream is full.                        *)
(*                                                                         *)
(* The adapter is kitty (image data and placeholder cells) or iterm2 (the  *)
(* image in place).  The frames of a surface have one size; a region names *)
(* a position and a size, and two regions do not overlap.                  *)
(***************************************************************************)
EXTENDS Naturals, Sequences, FiniteSets, SequencesExt

CONSTANTS Surfaces, Regions,
          Out,            \* the region of a surface outside the viewport
          MaxFrame        \* bound: frames given to a surface

ASSUME MediaSurfacesAssumption == Out \notin Surfaces \cup Regions /\ MaxFrame \in Nat

VARIABLES
  adapter,
  region,     \* where the layout has each surface
  displayed, disposed,    \* presented, destroyed
  frame,      \* the version of the newest frame, 0 for none
  frameDirty, placementDirty,
  last,       \* lastExternalRegion, Out for none
  kitty,      \* kittyScreen: the surface has an image of its own
  due,        \* a rendered frame will call the surface's listener
  blocked,    \* backpressured: a write returned false; the drain listener is attached
  pending,    \* the chunks the gate queued
  closed,
  cells,      \* the surface whose image or placeholder is in each region, its version
  image,      \* kitty: the version of each image the terminal holds, 0 for none
  overdrawn   \* history: something was drawn over what the surface had placed

settings == <<adapter, region, displayed, disposed>>
surface  == <<frame, frameDirty, placementDirty, last, kitty>>
gate     == <<blocked, pending, closed>>
terminal == <<cells, image, overdrawn>>
surfacesVars == <<adapter, region, displayed, disposed, frame, frameDirty, placementDirty, last,
                  kitty, due, blocked, pending, closed, cells, image, overdrawn>>

Blank == [of |-> Out, version |-> 0]
Chunk == [kind : {"image", "clear", "data", "place", "delete"}, of : Surfaces,
          to : Regions \cup {Out}, version : 0..MaxFrame]

SurfacesTypeOK ==
  /\ adapter \in {"kitty", "iterm2"} /\ region \in [Surfaces -> Regions \cup {Out}]
  /\ {displayed, disposed, frameDirty, placementDirty, kitty, due, blocked, closed, overdrawn}
       \subseteq [Surfaces -> BOOLEAN]
  /\ {frame, image} \subseteq [Surfaces -> 0..MaxFrame] /\ last \in [Surfaces -> Regions \cup {Out}]
  /\ pending \in [Surfaces -> Seq(Chunk)]
  /\ cells \in [Regions -> [of : Surfaces \cup {Out}, version : 0..MaxFrame]]

No  == [s \in Surfaces |-> FALSE]
SurfacesInit ==
  /\ adapter \in {"kitty", "iterm2"} /\ region = [s \in Surfaces |-> Out]
  /\ displayed = [s \in Surfaces |-> TRUE] /\ disposed = No
  /\ frame = [s \in Surfaces |-> 0] /\ frameDirty = No
  /\ placementDirty = [s \in Surfaces |-> TRUE] /\ last = [s \in Surfaces |-> Out] /\ kitty = No
  /\ due = No /\ blocked = No /\ pending = [s \in Surfaces |-> <<>>] /\ closed = No
  /\ cells = [r \in Regions |-> Blank] /\ image = [s \in Surfaces |-> 0]
  /\ overdrawn = No

----------------------------------------------------------------------------
(* The terminal, the stream and the gate. *)

\* What the terminal does with one chunk.
Draws(t, c) ==
  CASE c.kind \in {"image", "place"} ->
         [t EXCEPT !.cells[c.to] = [of |-> c.of, version |-> c.version], !.overdrawn[c.of] = FALSE]
    [] c.kind = "clear" ->
         LET owner == t.cells[c.to].of
         IN [t EXCEPT !.cells[c.to] = Blank,
                      !.overdrawn = [s \in Surfaces |-> @[s] \/ (s = owner /\ s # c.of)]]
    [] c.kind \in {"data", "delete"} -> [t EXCEPT !.image[c.of] = c.version]

\* The chunks of a step reach the stream in order, until the full-th write returns
\* false (never, when full is 0): what is left is queued behind it.
Writes(s, chunks, full) ==
  LET written == IF full = 0 THEN chunks ELSE SubSeq(chunks, 1, full)
      t == FoldLeft(Draws, [cells |-> cells, image |-> image, overdrawn |-> overdrawn], written)
  IN /\ cells' = t.cells /\ image' = t.image /\ overdrawn' = t.overdrawn
     /\ blocked' = [blocked EXCEPT ![s] = full > 0]
     /\ pending' = [pending EXCEPT ![s] = IF full = 0 THEN <<>>
                                          ELSE SubSeq(chunks, full + 1, Len(chunks))]

\* buffer(), and write() of the kitty screen: queued behind the chunk in flight.
BuffersUnlessBlocked(s, chunks) ==                                         \* mutant
  IF chunks = <<>> \/ blocked[s] THEN UNCHANGED <<terminal, blocked, pending>>
  ELSE \E full \in 0..Len(chunks) : Writes(s, chunks, full)
Buffers(s, chunks) ==
  IF chunks = <<>> THEN UNCHANGED <<terminal, blocked, pending>>
  ELSE IF blocked[s]
  THEN pending' = [pending EXCEPT ![s] = @ \o chunks] /\ UNCHANGED <<terminal, blocked>>
  ELSE \E full \in 0..Len(chunks) : Writes(s, chunks, full)

Rendered == due' = [s \in Surfaces |-> displayed'[s] /\ ~disposed'[s]]

----------------------------------------------------------------------------
(* The surface. *)

SetFrame(s) ==
  /\ frame[s] < MaxFrame /\ ~disposed[s]
  /\ frame' = [frame EXCEPT ![s] = @ + 1] /\ frameDirty' = [frameDirty EXCEPT ![s] = TRUE]
  /\ UNCHANGED <<settings, placementDirty, last, kitty, gate, terminal>>
  /\ Rendered

\* clearExternalPlacement()
Delete(s) == [kind |-> "delete", of |-> s, to |-> Out, version |-> 0]
Clear(s)  == [kind |-> "clear", of |-> s, to |-> last[s], version |-> 0]
ClearExternalPlacement(s) ==
  /\ Buffers(s, (IF kitty[s] THEN <<Delete(s)>> ELSE <<>>)
                \o (IF adapter = "iterm2" /\ last[s] # Out THEN <<Clear(s)>> ELSE <<>>))
  /\ kitty' = [kitty EXCEPT ![s] = FALSE] /\ last' = [last EXCEPT ![s] = Out]
  /\ frameDirty' = [frameDirty EXCEPT ![s] = frame[s] > 0]
  /\ placementDirty' = [placementDirty EXCEPT ![s] = TRUE]

\* The layout gives a region to one presented surface at a time.
Free(s, r) == r = Out \/ \A other \in Surfaces \ {s} : displayed[other] => region[other] # r

\* Scrolling, a split or a resize moves a surface, and the frame that is rendered
\* next draws over the cells it leaves.  Only onResize() marks the surface.
Move(s, resized) ==
  /\ ~disposed[s] /\ displayed[s] /\ ~due[s]
  /\ \E r \in (Regions \cup {Out}) \ {region[s]} : Free(s, r) /\ region' = [region EXCEPT ![s] = r]
  /\ cells' = [r \in Regions |-> IF r = region[s] /\ cells[r].of = s THEN Blank ELSE cells[r]]
  /\ overdrawn' = [overdrawn EXCEPT ![s] = @ \/ last[s] = region[s]]
  /\ placementDirty' = [placementDirty EXCEPT ![s] = @ \/ resized]
  /\ frameDirty' = [frameDirty EXCEPT ![s] = @ \/ (resized /\ frame[s] > 0)]
  /\ UNCHANGED <<adapter, displayed, disposed, frame, last, kitty, gate, image>>
  /\ Rendered

HideSurface(s) ==
  /\ displayed[s] /\ ~disposed[s]
  /\ displayed' = [displayed EXCEPT ![s] = FALSE] /\ ClearExternalPlacement(s)
  /\ due' = [due EXCEPT ![s] = FALSE]
  /\ UNCHANGED <<adapter, region, disposed, frame, closed>>

ShowSurface(s) ==
  /\ ~displayed[s] /\ ~disposed[s] /\ Free(s, region[s])
  /\ displayed' = [displayed EXCEPT ![s] = TRUE]
  /\ frameDirty' = [frameDirty EXCEPT ![s] = frame[s] > 0]
  /\ placementDirty' = [placementDirty EXCEPT ![s] = TRUE]
  /\ UNCHANGED <<adapter, region, disposed, frame, last, kitty, gate, terminal>>
  /\ Rendered

\* destroySelf(): the gate is closed behind the teardown.
DestroySelf(s) ==
  /\ ~disposed[s]
  /\ disposed' = [disposed EXCEPT ![s] = TRUE] /\ displayed' = [displayed EXCEPT ![s] = FALSE]
  /\ ClearExternalPlacement(s)
  /\ closed' = [closed EXCEPT ![s] = TRUE] /\ due' = [due EXCEPT ![s] = FALSE]
  /\ UNCHANGED <<adapter, region, frame>>

----------------------------------------------------------------------------
(* flushExternal(), after a frame of the renderer. *)

\* flushKitty(): the frame is written whatever the stream answers; the placement
\* is sent only when nothing is queued.
Data(s)  == [kind |-> "data", of |-> s, to |-> Out, version |-> frame[s]]
Place(s) == [kind |-> "place", of |-> s, to |-> region[s], version |-> 0]
FlushKitty(s) ==
  LET data == IF frameDirty[s] THEN <<Data(s)>> ELSE <<>>
      done(full) == full # 1 \/ data = <<>>
  IN \E full \in 0..(Len(data) + 1) :
       /\ Writes(s, IF done(full) THEN Append(data, Place(s)) ELSE data, full)
       /\ kitty' = [kitty EXCEPT ![s] = TRUE]
       /\ frameDirty' = [frameDirty EXCEPT ![s] = FALSE]
       /\ IF done(full)
          THEN /\ last' = [last EXCEPT ![s] = region[s]]
               /\ placementDirty' = [placementDirty EXCEPT ![s] = FALSE]
          ELSE /\ placementDirty' = [placementDirty EXCEPT ![s] = @ \/ ~kitty[s]]
               /\ UNCHANGED last

\* flushItermImage(): the old region is cleared first; when that fills the stream,
\* the image has to wait.
Image(s) == [kind |-> "image", of |-> s, to |-> region[s], version |-> frame[s]]
FlushIterm(s) ==
  LET clear == IF last[s] \notin {Out, region[s]} THEN <<Clear(s)>> ELSE <<>>
      done(full) == full # 1 \/ clear = <<>>
  IN \E full \in 0..(Len(clear) + 1) :
       /\ Writes(s, IF done(full) THEN Append(clear, Image(s)) ELSE clear, full)
       /\ IF done(full)
          THEN /\ last' = [last EXCEPT ![s] = region[s]]
               /\ frameDirty' = [frameDirty EXCEPT ![s] = FALSE]
               /\ placementDirty' = [placementDirty EXCEPT ![s] = FALSE]
          ELSE last' = [last EXCEPT ![s] = Out] /\ UNCHANGED <<frameDirty, placementDirty>>
       /\ UNCHANGED kitty

\* visibleSurfaceRegion(): the surface is whole, inside the screen and every ancestor.
Visible(s) == region[s] # Out

Current(s) == ~frameDirty[s] /\ ~placementDirty[s] /\ last[s] = region[s]

Flush(s) ==
  /\ due[s] /\ due' = [due EXCEPT ![s] = FALSE]
  /\ \/ ~Visible(s) /\ ClearExternalPlacement(s)
     \/ /\ Visible(s) /\ (blocked[s] \/ frame[s] = 0 \/ Current(s))
        /\ UNCHANGED <<frameDirty, placementDirty, last, kitty, blocked, pending, terminal>>
     \/ /\ Visible(s) /\ ~blocked[s] /\ frame[s] > 0 /\ ~Current(s)
        /\ IF adapter = "kitty" THEN FlushKitty(s) ELSE FlushIterm(s)
  /\ UNCHANGED <<settings, frame, closed>>

\* handleDrain()
DrainQuietly(s) ==                                                         \* mutant
  /\ blocked[s] /\ \E full \in 0..Len(pending[s]) : Writes(s, pending[s], full)
  /\ UNCHANGED <<settings, surface, closed, due>>
Drain(s) ==
  /\ blocked[s]
  /\ \E full \in 0..Len(pending[s]) :
       /\ Writes(s, pending[s], full)
       /\ IF full = 0 /\ ~closed[s] /\ displayed[s] /\ ~disposed[s]
          THEN due' = [t \in Surfaces |-> displayed[t] /\ ~disposed[t]] ELSE UNCHANGED due
  /\ UNCHANGED <<settings, surface, closed>>

SurfacesNext == \E s \in Surfaces :
  \/ SetFrame(s) \/ Move(s, TRUE) \/ Move(s, FALSE)
  \/ HideSurface(s) \/ ShowSurface(s) \/ DestroySelf(s)
  \/ Flush(s) \/ Drain(s)

SurfacesSpec == SurfacesInit /\ [][SurfacesNext]_surfacesVars

----------------------------------------------------------------------------
(* Properties *)

\* Nothing of the surface is on its way: no frame is due and its gate is empty.
Quiet(s) == ~due[s] /\ ~blocked[s]

\* The regions where the user sees the surface's image, and its version.
SeenAt(s) == {r \in Regions : cells[r].of = s /\ (adapter = "kitty" => image[s] > 0)}
SeenVersion(s, r) == IF adapter = "kitty" THEN image[s] ELSE cells[r].version

\* Nothing stale stays on the terminal: once a surface has settled, the terminal
\* shows its image nowhere but where the layout has it, in the newest version, and
\* nowhere when it is hidden, scrolled away or destroyed ("cancel work on selection,
\* hide, or destruction"), whatever the stream held back in between.  The terminal
\* keeps no image of a destroyed surface.
NothingStaleShown ==
  \A s \in Surfaces : Quiet(s) =>
    /\ \A r \in SeenAt(s) : displayed[s] /\ r = region[s] /\ SeenVersion(s, r) = frame[s]
    /\ disposed[s] => image[s] = 0

\* The newest frame is on the terminal once the surface has settled: no update is
\* lost to a full stream.  (What a late teardown of another surface clears, and what
\* is drawn over a surface that leaves and comes back while its gate is blocked, is
\* not painted again.)
NewestIsShown ==
  \A s \in Surfaces :
    Quiet(s) /\ displayed[s] /\ region[s] # Out /\ frame[s] > 0 =>
      region[s] \in SeenAt(s) \/ overdrawn[s]

\* The newest frame gets through whatever the stream held back.
SurfacesConsistent ==
  /\ SurfacesTypeOK
  /\ NewestIsShown
=============================================================================
