----------------------------- MODULE YoloDecode -----------------------------
(***************************************************************************)
(* What the program reads out of a YOLO model's output                     *)
(* (python_detector/models/yolo_decode.py).                                *)
(*                                                                         *)
(* An output is its shape, "rows" or "bad", and its rows.  A row has a     *)
(* box, a score in tenths, a class (Absent when it is not an integer), the *)
(* set "nan" of its parts that are not finite and, from a segmentation     *)
(* model, a mask: the box of the cells that are set (Absent when none is)  *)
(* in a grid.  "protos" says whether the mask prototypes are finite.       *)
(* Decoding gives Absent where the code raises RuntimeError.               *)
(***************************************************************************)
EXTENDS Calibration

\* The rows that are not below the threshold.
Confident(rows, threshold) == At(rows, {i \in DOMAIN rows : rows[i].score >= threshold})

\* _decode_row_table hands every row on; _decode_ultralytics_output checks the
\* scores, drops what is below the threshold and checks the boxes it keeps.
DecodeRows(output, threshold, decode) ==
  LET rows == output.rows
      kept == Confident(rows, threshold)
  IN  CASE output.shape = "bad" -> Absent
        [] output.shape = "rows" /\ decode # "ultralytics_yolo" -> rows
        [] OTHER -> IF \/ \E i \in DOMAIN rows : "score" \in rows[i].nan
                       \/ \E i \in DOMAIN kept : "box" \in kept[i].nan
                    THEN Absent ELSE kept

\* decode_yolo_segmentation: the grid of a row model covers the row's box, the
\* grid of an Ultralytics model the whole canvas of mask prototypes.
DecodeMasks(output, threshold, decode) ==
  LET rows == output.rows
      kept == Confident(rows, threshold)
      maskBox(row) == IF decode = "segmentation_rows"
                      THEN row.box
                      ELSE <<0, 0, row.mask.grid[1] - 1, row.mask.grid[2] - 1>>
  IN  IF \/ output.shape = "bad"
         \/ \E i \in DOMAIN rows : "score" \in rows[i].nan
         \/ \E i \in DOMAIN kept : kept[i].nan # {}
         \/ decode = "segmentation_rows" /\ \E i \in DOMAIN kept : kept[i].class = Absent
         \/ decode # "segmentation_rows" /\ kept # <<>> /\ ~output.protos
      THEN Absent
      ELSE [i \in DOMAIN kept |->
              [box |-> kept[i].box, score |-> kept[i].score, class |-> kept[i].class,
               mask |-> kept[i].mask, maskBox |-> maskBox(kept[i])]]
=============================================================================
