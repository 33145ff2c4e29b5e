----------------------------- MODULE MCDataPath -----------------------------
(* Scans with every field set, with some at their defaults, and with none;  *)
(* messages of other programs that end half way, hold a text that is not    *)
(* UTF-8, a value too wide for its field, or fields of another build.       *)
EXTENDS DataPath

MCTextSize == [t \in {"", "lidar", "auv", "garbled", "h1"} |->
                 CASE t = "" -> 0 [] t = "h1" -> 2 [] t = "auv" -> 3 [] OTHER -> 5]

Full == [DefaultScan EXCEPT !.frame_id = "lidar", !.scan_time_ns = 300,
           !.time_increment_ns = -1, !.angle_min = 1, !.angle_max = 2, !.angle_increment = 3,
           !.range_min = 4, !.range_max = 5, !.echo_index = 2, !.echo_count = 3,
           !.ranges = <<7, 0>>, !.intensities = <<8>>]
Sparse == [DefaultScan EXCEPT !.frame_id = "h1", !.angle_min = NegZero, !.ranges = <<NegZero>>,
             !.echo_count = 0]
MCShapes == {Full, Sparse, DefaultScan}

MCCloudShapes == {
  [DefaultCloud EXCEPT !.frame_id = "lidar", !.range_max = 5, !.ranges = <<7, 7>>,
     !.azimuths = <<1, 2>>, !.elevations = <<3, 4>>, !.intensities = <<5, 6>>],
  [DefaultCloud EXCEPT !.ranges = <<9>>, !.azimuths = <<1>>, !.elevations = <<NegZero>>]}

MCForeign == <<
  <<Field(1, "text", "auv"), Field(12, "floats", <<6, 6>>), Cut>>,
  <<Field(13, "floats", <<5>>), Field(1, "text", "garbled")>>,
  <<Field(10, "int", 258), Field(11, "int", 300), Field(12, "float", 1), Field(12, "float", 2)>>,
  <<Field(4, "text", "auv"), Field(20, "int", 3), Field(2, "int", 7)>>,
  <<Field(1, "header", <<Field(1, "int", 1)>>), Field(2, "text", "garbled")>> >>
=============================================================================
