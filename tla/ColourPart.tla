----------------------------- MODULE ColourPart -----------------------------
(* The colour spaces as a part of what a photo goes through.               *)
CONSTANTS Levels
VARIABLES s_pc, s_pixel, s_in_color_space, s_jpeg_color_space, s_out_color_space, s_planes, s_component_needed,
  s_shown

coloursVars == <<s_pc, s_pixel, s_in_color_space, s_jpeg_color_space, s_out_color_space, s_planes,
                 s_component_needed, s_shown>>

Colours == INSTANCE ColourSpaces WITH
  pc <- s_pc, pixel <- s_pixel, in_color_space <- s_in_color_space,
  jpeg_color_space <- s_jpeg_color_space, out_color_space <- s_out_color_space,
  planes <- s_planes, component_needed <- s_component_needed, shown <- s_shown

ASSUME LevelsAssumption == Colours!LevelsAssumption

(* A pixel returns in its colour (rgb_ycc_convert, ycc_rgb_convert).       *)
ColoursReturn == Colours!ColoursReturn
=============================================================================
