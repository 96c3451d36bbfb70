----------------------------- MODULE FrameOutput -----------------------------
(***************************************************************************)
(* How a picture of the phone becomes a frame of OBS's canvas              *)
(* (output_nv21 and output_bgra_frame in src/src/cacam-usb-source.cpp):    *)
(* the part of it that has the canvas's shape is cut out of the middle and *)
(* scaled.                                                                 *)
(*                                                                         *)
(* The code computes with doubles.  Shapes are compared exactly all the    *)
(* same: the quotients of integers of 14 bits differ by more than a        *)
(* double's precision, or are equal and round alike.  A length that is a   *)
(* whole number may come out a little less, and is then truncated to the   *)
(* number below.                                                           *)
(***************************************************************************)
EXTENDS Integers

CONSTANTS
  MetadataSize,   \* CACAM_FRAME_METADATA_SIZE
  MaxFrameSide,   \* the 4096 of output_nv21
  MaxCanvasSide   \* no canvas of OBS is wider or higher

ASSUME SideAssumption ==
  MetadataSize \in Nat /\ MaxFrameSide \in Nat /\ MaxCanvasSide \in Nat

Picture == [cols : 1 .. MaxFrameSide, rows : 1 .. MaxFrameSide]
Canvas  == [width : 1 .. MaxCanvasSide, height : 1 .. MaxCanvasSide]

Lesser(a, b)  == IF a < b THEN a ELSE b
Greater(a, b) == IF a < b THEN b ELSE a

\* The definitions named Variant... are those beside them with one plausible slip;
\* no specification uses them.  They show which slip each property would catch.

-----------------------------------------------------------------------------
(* output_nv21: the sizes of the picture, and bytes that are exactly its   *)
(* Y plane and its half as large VU plane.                                 *)

ExpectedSize(width, height) == (width * height * 3) \div 2

AcceptsNV21(width, height, payloadSize) ==
  /\ payloadSize >= MetadataSize
  /\ width \in 1 .. MaxFrameSide /\ height \in 1 .. MaxFrameSide
  /\ width % 2 = 0 /\ height % 2 = 0
  /\ payloadSize - MetadataSize = ExpectedSize(width, height)

\* cv::Mat(height + height / 2, width)
BytesRead(width, height) == (height + height \div 2) * width

-----------------------------------------------------------------------------
(* output_bgra_frame *)

\* static_cast<int>(dividend / divisor), at least 1
Lengths(dividend, divisor) ==
  {Greater(dividend \div divisor, 1)}
    \cup (IF dividend % divisor = 0 THEN {Greater((dividend \div divisor) - 1, 1)} ELSE {})

\* cv::Rect, never wider or higher than the picture allows
Crop(picture, x, y, width, height) ==
  [x |-> x, y |-> y, width  |-> Lesser(width, picture.cols - x),
                     height |-> Lesser(height, picture.rows - y)]

VariantWider(picture, canvas) == picture.cols * canvas.width > picture.rows * canvas.height

Wider(picture, canvas) == picture.cols * canvas.height > picture.rows * canvas.width

Narrower(picture, canvas) == picture.cols * canvas.height < picture.rows * canvas.width

Crops(picture, canvas) ==
  IF Wider(picture, canvas)
  THEN {Crop(picture, Greater((picture.cols - width) \div 2, 0), 0, width, picture.rows) :
          width \in Lengths(picture.rows * canvas.width, canvas.height)}
  ELSE IF Narrower(picture, canvas)
  THEN {Crop(picture, 0, Greater((picture.rows - height) \div 2, 0), picture.cols, height) :
          height \in Lengths(picture.cols * canvas.height, canvas.width)}
  ELSE {Crop(picture, 0, 0, picture.cols, picture.rows)}

-----------------------------------------------------------------------------
(* What the operators promise; FrameAge.tla states it of the frames shown. *)

\* A crop is a part of the picture (cv::Mat throws otherwise, and nothing on the
\* worker's thread would catch it), and it is not empty.
LiesInside(crop, picture) ==
  /\ 0 <= crop.x /\ 1 <= crop.width  /\ crop.x + crop.width  <= picture.cols
  /\ 0 <= crop.y /\ 1 <= crop.height /\ crop.y + crop.height <= picture.rows

\* What is cut off is cut off on both sides alike, and on one pair of sides only.
IsCentred(crop, picture) ==
  /\ picture.cols - crop.width - 2 * crop.x \in {0, 1}
  /\ picture.rows - crop.height - 2 * crop.y \in {0, 1}
  /\ crop.width = picture.cols \/ crop.height = picture.rows

\* The crop has the canvas's shape to within a pixel of it: nothing is stretched by
\* more, except where that shape is thinner than a pixel.
HasShape(crop, canvas) ==
  /\ crop.width = 1  \/ crop.width * canvas.height <= (crop.height + 1) * canvas.width
  /\ crop.height = 1 \/ crop.height * canvas.width <= (crop.width + 1) * canvas.height

EveryPictureFits ==
  \A picture \in Picture, canvas \in Canvas : \A crop \in Crops(picture, canvas) :
    LiesInside(crop, picture) /\ IsCentred(crop, picture) /\ HasShape(crop, canvas)

\* No more of a message is read than has arrived, and none of it is left over.
EveryMessageIsWhole ==
  \A width, height \in 0 .. MaxFrameSide + 1 :
    \A size \in 0 .. MetadataSize + ExpectedSize(width, height) + 1 :
      AcceptsNV21(width, height, size) => MetadataSize + BytesRead(width, height) = size

=============================================================================
