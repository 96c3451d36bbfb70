--------------------------- MODULE MaskOperations ---------------------------
(***************************************************************************)
(* How a segmentation model's foreground confidence becomes a background   *)
(* mask (src/src/background/mask-post-processing.cpp) and the pixel work   *)
(* behind it (src/crates/bgobs-core/src/mask.rs).                          *)
(*                                                                         *)
(* Masks are functions from pixels to 0..255; 255 is background, 0 is the  *)
(* subject.  Factors are whole hundredths, as the sliders give them.  The  *)
(* mask has the size of the picture already.  OpenCV's operators are       *)
(* external and modelled by what they do to a small mask: components,      *)
(* erosion, dilation, and a blur that averages.                            *)
(***************************************************************************)
EXTENDS Integers, FiniteSets, Functions

CONSTANTS Height, Width

ASSUME SizeAssumption == Height \in Nat \ {0} /\ Width \in Nat \ {0}

Pixels == (1 .. Height) \X (1 .. Width)
Byte   == 0 .. 255
Mask   == [Pixels -> Byte]

Lower(a, b)  == IF a < b THEN a ELSE b
Higher(a, b) == IF a > b THEN a ELSE b
Clamp(x, low, high) == Lower(Higher(x, low), high)

\* to the nearest integer, halves upwards
Rounded(dividend, divisor) == (2 * dividend + divisor) \div (2 * divisor)

\* the samples around a pixel that lie in the picture
Near(p, radius) ==
  (Higher(1, p[1] - radius) .. Lower(Height, p[1] + radius))
    \X (Higher(1, p[2] - radius) .. Lower(Width, p[2] + radius))

\* The mask itself; TLC computes its pixels once here, not at every use.
Computed(mask) == CHOOSE m \in {mask} : m = mask

\* The definitions named Variant... are those beside them with one plausible slip;
\* no specification uses them.  They show which slip each property would catch.

-----------------------------------------------------------------------------
(* write_background_mask_from_foreground *)

\* write_hard_background_mask: the limit is truncated to a byte
Hard(value, threshold) ==
  IF value < (Clamp(threshold, 0, 100) * 255) \div 100 THEN 255 ELSE 0

\* alpha * alpha * (3 - 2 * alpha), in hundredths
Smoothstep(alpha) == Rounded(alpha * alpha * (300 - 2 * alpha), 10000)

Soft(value, threshold, softness) ==
  LET lower == Clamp(2 * threshold - softness, 0, 200)
      upper == Clamp(2 * threshold + softness, 0, 200)
      alpha == Clamp(((200 * value - 255 * lower) * 100) \div (255 * (upper - lower)), 0, 100)
  IN IF upper <= lower THEN Hard(value, threshold)
     ELSE Rounded((100 - Smoothstep(alpha)) * 255, 100)

Background(value, s) ==
  IF ~s.enableThreshold THEN 255 - value
  ELSE IF s.edgeSoftness <= 0 THEN Hard(value, s.threshold)
  ELSE Soft(value, Clamp(s.threshold, 0, 100), Clamp(s.edgeSoftness, 0, 100))

BackgroundMask(foreground, s) == [p \in Pixels |-> Background(foreground[p], s)]

-----------------------------------------------------------------------------
(* write_clean_background_mask, as cleanMaskSpecklesWithRust calls it: the *)
(* background is cleaned half as strongly as the foreground.  Ratios are   *)
(* in parts of 40000, so that halves of hundredths are whole numbers.      *)

CleanupRadius(strength) == Clamp(1 + Rounded(2 * strength, 100), 1, 3)

\* how many of the samples are background, as a ratio to compare with a limit
BackgroundRatioAtMost(mask, p, radius, limit) ==
  LET samples == Near(p, radius)
  IN 40000 * Cardinality({q \in samples : mask[q] >= 192}) <= limit * Cardinality(samples)

BackgroundRatioAtLeast(mask, p, radius, limit) ==
  LET samples == Near(p, radius)
  IN 40000 * Cardinality({q \in samples : mask[q] >= 192}) >= limit * Cardinality(samples)

VariantHoleLimit(cleanup) == 32800 + 140 * cleanup
HoleLimit(cleanup) == 7200 + 140 * cleanup
SpeckLimit(cleanup) == 32800 - 70 * cleanup

CleanPixel(mask, p, cleanup) ==
  LET radius == CleanupRadius(cleanup)
  IN IF mask[p] >= 192 /\ BackgroundRatioAtMost(mask, p, radius, HoleLimit(cleanup)) THEN 0
     ELSE IF mask[p] <= 64 /\ BackgroundRatioAtLeast(mask, p, radius, SpeckLimit(cleanup)) THEN 255
     ELSE mask[p]

\* every pixel is decided from the mask as it was
Clean(mask, cleanup) ==
  IF cleanup <= 0 THEN mask
  ELSE [p \in Pixels |-> CleanPixel(mask, p, Clamp(cleanup, 0, 100))]

-----------------------------------------------------------------------------
(* postProcessForegroundMask *)

\* the background pixels connected with p, diagonals included
ComponentOf(mask, p) ==
  LET background == {q \in Pixels : mask[q] > 128}
      grown[S \in SUBSET background] ==
        LET wider == background \cap UNION {Near(q, 1) : q \in S}
        IN IF wider = S THEN S ELSE grown[wider]
  IN grown[{p}]

\* Whatever is not in a background component of some size becomes subject, soft
\* pixels on the subject's side included.
FilterSmallBackgroundComponents(mask, contourFilter) ==
  IF contourFilter <= 0 \/ contourFilter >= 100 THEN mask
  ELSE [p \in Pixels |->
          IF mask[p] > 128 /\ 100 * Cardinality(ComponentOf(mask, p)) > Height * Width * contourFilter
          THEN mask[p] ELSE 0]

\* stackBlur, blur and boxFilter: external
Blur(mask, kernelSize) ==
  [p \in Pixels |->
     LET samples == Near(p, kernelSize \div 2)
     IN Rounded(SumFunctionOnSet(mask, samples), Cardinality(samples))]

Binary(mask) == [p \in Pixels |-> IF mask[p] > 128 THEN 255 ELSE 0]

\* cv::erode and cv::dilate, `iterations' times with a 3x3 kernel: external
Erode(mask, iterations) ==
  [p \in Pixels |-> CHOOSE v \in {mask[q] : q \in Near(p, iterations)} :
                      \A q \in Near(p, iterations) : v <= mask[q]]
Dilate(mask, iterations) ==
  [p \in Pixels |-> CHOOSE v \in {mask[q] : q \in Near(p, iterations)} :
                      \A q \in Near(p, iterations) : v >= mask[q]]

\* makeOddKernelSize, of hundredths
OddKernelSize(size) ==
  LET whole == size \div 100 IN Higher(IF whole % 2 = 0 THEN whole + 1 ELSE whole, 1)

SmoothContour(mask, s) ==
  LET blurred == Computed(Blur(mask, OddKernelSize(300 + 11 * s.smoothContour)))
  IN IF s.smoothContour <= 0 THEN mask
     ELSE IF s.edgeSoftness <= 0 THEN Binary(blurred) ELSE blurred

Expand(mask, s) ==
  IF s.maskExpansion > 0 THEN Erode(mask, s.maskExpansion)
  ELSE IF s.maskExpansion < 0 THEN Dilate(mask, -s.maskExpansion) ELSE mask

Feather(mask, feather) ==
  LET kernelSize == OddKernelSize(40 * feather)
  IN IF feather <= 0 THEN mask ELSE Blur(Computed(Dilate(mask, kernelSize \div 3)), kernelSize)

Shaped(background, s) ==
  LET cleaned  == Computed(Clean(background, s.foregroundCleanup))
      filtered == Computed(FilterSmallBackgroundComponents(cleaned, s.contourFilter))
      smoothed == Computed(SmoothContour(filtered, s))
      expanded == Computed(Expand(smoothed, s))
  IN Feather(expanded, s.feather)

PostProcess(foreground, s) ==
  LET background == Computed(BackgroundMask(foreground, s))
  IN IF s.enableThreshold THEN Computed(Shaped(background, s)) ELSE background

-----------------------------------------------------------------------------
(* smoothTemporalBackgroundMask and write_smooth_temporal_background_mask, *)
(* with protectForeground, which is always on.  Factors are in             *)
(* ten-thousandths here.                                                   *)

Smooths(factor) == 0 < factor /\ factor < 100

\* f32::clamp panics when its lower limit exceeds the upper one, and the panic cannot
\* leave the extern "C" function: the process ends.
Panics(factor) == Smooths(factor) /\ (100 * factor < 500 \/ 9800 < 100 * factor)

RecoverForeground(factor) == Clamp(6500 + 35 * factor, 100 * factor, 9800)
LoseForeground(factor)    == Clamp(35 * factor, 500, 100 * factor)

UpdateFactor(current, previous, factor) ==
  IF current > previous THEN LoseForeground(factor) ELSE RecoverForeground(factor)

VariantTruncates(current, previous, update) ==
  (current * update + previous * (10000 - update)) \div 10000

Blend(current, previous, update) ==
  Rounded(current * update + previous * (10000 - update), 10000)

SmoothedPixel(current, previous, factor) ==
  IF Smooths(factor) THEN Blend(current, previous, UpdateFactor(current, previous, factor))
  ELSE current

-----------------------------------------------------------------------------
(* What the operators promise; FilterSettings.tla states it of a filter's settings. *)

HardConfidence == [Pixels -> {0, 255}]

\* the settings that PostProcess reads, all of them whole numbers of hundredths or pixels
IsShaping(s) ==
  /\ s.enableThreshold \in BOOLEAN
  /\ \A n \in {s.threshold, s.edgeSoftness, s.foregroundCleanup, s.contourFilter,
               s.smoothContour, s.maskExpansion, s.feather} : n \in Int

LessBackground(mask, other) == \A p \in Pixels : mask[p] <= other[p]

\* Where the model becomes less sure of the subject in one pixel, no pixel of the
\* shaped mask turns towards the subject.
ShapingIsMonotone(s) ==
  \A foreground \in HardConfidence : \A p \in Pixels :
    foreground[p] = 255 =>
      LessBackground(PostProcess(foreground, s),
                     PostProcess([foreground EXCEPT ![p] = 0], s))

Distance(a, b) == IF a < b THEN b - a ELSE a - b

\* A smoothed pixel lies between the previous one and the current one, and is nearer to
\* the current one unless what is left to go is lost in rounding.
Approaches(current, previous, factor) ==
  LET smoothed == SmoothedPixel(current, previous, factor)
  IN /\ Lower(current, previous) <= smoothed /\ smoothed <= Higher(current, previous)
     /\ \/ previous = current
        \/ Distance(smoothed, current) < Distance(previous, current)
        \/ 2 * UpdateFactor(current, previous, factor) * Distance(previous, current) <= 10000
=============================================================================
