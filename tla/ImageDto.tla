------------------------------ MODULE ImageDto ------------------------------
(***************************************************************************)
(* dto::ImageMetadata and dto::ImageView: values, the view with a pointer  *)
(* to data that it does not own.  Reading a member is selecting a field,   *)
(* writing it EXCEPT, and two metadata are equal if all fields are.        *)
(***************************************************************************)
EXTENDS Naturals

ImageMetadata(datatype, width, height, colorSpace, layout, orientation) ==
  [datatype |-> datatype, width |-> width, height |-> height,
   colorSpace |-> colorSpace, layout |-> layout, orientation |-> orientation]

NoMetadata == ImageMetadata("", 0, 0, "", "", "")

ImageView(metadata, data) == [metadata |-> metadata, data |-> data]

nullptr == <<"nullptr">>
NoView == ImageView(NoMetadata, nullptr)
=============================================================================
