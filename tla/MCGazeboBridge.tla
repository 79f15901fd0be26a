--------------------------- MODULE MCGazeboBridge ---------------------------
EXTENDS GazeboBridge

\* Below, within and above the limits, and not a number.
MCControls == {-1, 1, 3, NaN}

\* No reading, one, the middle of an even and of an odd number, and more than
\* 16 bits of centimetres.
MCLaserScans == {<< >>, <<NotFinite>>, <<NotFinite, 1>>, <<1, NotFinite, 2>>, <<70000>>}

\* A clock that was never set, and one that shows January 2026.
MCEpochTimes == {0, 26966000}

\* A host whose clock is right, and a distance that fits.
MCPresentTimes == {26966000}
MCNearScans == {<<120>>}
=============================================================================
