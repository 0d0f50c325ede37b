---------------------------- MODULE MCVncStream -----------------------------
(***************************************************************************)
(* Servers for VncStream: each plan brings two or three decoders together  *)
(* with an image that is still loading, or one exception the properties    *)
(* name.                                                                   *)
(***************************************************************************)
EXTENDS VncStream

Update(rects) == <<"update", rects>>
Bell == <<"bell", "">>
Jpeg == <<"tight", "jpeg">>

MCPlans ==
  { \* every decoder, nothing to wait for
    <<Update(<<<<"raw", 3>>, <<"rre", 2>>, <<"rre", 0>>>>), Bell,
      Update(<<<<"hextile", <<"plain", "raw", "blank", "subrects", "blank">>>>,
              <<"copyrect", "">>>>)>>,
    <<Update(<<<<"tight", "fill">>, <<"tight", "copy">>, <<"tight", "palette">>,
              <<"tight", "mono">>, <<"tight", "dots">>>>), <<"fence", "short">>,
      Update(<<<<"cursor", "">>, <<"qemukey", "">>>>)>>,
    \* the same behind an image
    <<Update(<<Jpeg, <<"raw", 2>>, <<"rre", 1>>, <<"copyrect", "">>>>),
      Update(<<<<"raw", 1>>>>), Bell>>,
    <<Update(<<Jpeg, <<"hextile", <<"plain", "raw", "blank">>>>>>),
      Update(<<<<"hextile", <<"blank", "subrects">>>>>>)>>,
    <<Update(<<Jpeg, <<"tight", "copy">>, <<"tight", "palette">>>>),
      Update(<<<<"tight", "mono">>, Jpeg>>)>>,
    <<Update(<<<<"tightpng", "png">>, <<"tight", "dots">>,
              <<"tight", "mono">>, <<"tightpng", "jpeg">>>>),
      Update(<<<<"tightpng", "fill">>>>)>>,
    \* sizes, the end that a LastRect brings, continuous updates
    <<Update(<<<<"screens", "">>, Jpeg, <<"desktopsize", "">>>>),
      Update(<<<<"screens", "refused">>, <<"tight", "fill">>,
              <<"lastrect", "">>>>), Bell>>,
    <<<<"endcontinuous", "">>, Update(<<Jpeg>>), Update(<<<<"raw", 2>>>>),
      Update(<<Jpeg, Jpeg>>), Update(<<<<"raw", 1>>>>)>>,
    \* an update without rectangles, idle and behind an image
    <<Update(<<>>), Update(<<<<"tight", "fill">>>>), Bell>>,
    <<Update(<<Jpeg>>), Update(<<>>), Bell>>,
    \* what a server may not send, or the client does not expect
    <<<<"fence", "long">>, Update(<<<<"tight", "fill">>>>)>>,
    <<Update(<<<<"raw", 0>>, <<"raw", 1>>>>), Bell>>,
    <<Update(<<Jpeg, <<"raw", 0>>>>), Update(<<<<"raw", 1>>>>), Bell>>,
    <<Update(<<<<"tight", "torn">>, <<"tight", "fill">>>>), Update(<<Jpeg>>)>>,
    <<Update(<<<<"tight", "cut">>>>), Bell>>,
    <<Update(<<<<"tight", "gradient">>>>), Bell>>,
    <<Update(<<<<"tight", "png">>>>), Bell>>,
    <<Update(<<<<"tightpng", "copy">>>>), Bell>>,
    <<Update(<<<<"unknown", "">>>>), Bell>>,
    <<Update(<<<<"hextile", <<"plain", "illegal">>>>>>), Bell>>,
    <<Bell, <<"unknown", "">>, Bell>> }
=============================================================================
